---- MODULE Spec2Model ----
(***************************************************************************)
(* X4 Foundations Station Planner: the resource-flow engine                *)
(* (computeModuleIO, computeStation, computeNetwork) and the plan store    *)
(* that re-evaluates the network after topology edits.                     *)
(*                                                                         *)
(* Amounts are JavaScript numbers.  They are modelled as binary floating   *)
(* point values with a MantissaBits-bit significand and round-to-nearest-  *)
(* even after every arithmetic operation; a value is kept as a normalised  *)
(* fraction <<numerator, denominator>>.                                    *)
(***************************************************************************)
EXTENDS Integers, Sequences, FiniteSets, TLC

(***************************************************************************)
(* Numbers                                                                 *)
(***************************************************************************)
MantissaBits == 8

RECURSIVE Pow2(_)
Pow2(k) == IF k = 0 THEN 1 ELSE 2 * Pow2(k - 1)

MantissaLimit == Pow2(MantissaBits)

Abs(x) == IF x < 0 THEN -x ELSE x

RECURSIVE Gcd(_, _)
Gcd(a, b) == IF b = 0 THEN a ELSE Gcd(b, a % b)

\* the fraction n/d in lowest terms with a positive denominator; a zero
\* divisor gives the non-finite values of JavaScript with denominator 0:
\* <<1, 0>> is Infinity, <<-1, 0>> is -Infinity and <<0, 0>> is NaN
Rat(n, d) ==
  IF d = 0 THEN <<IF n > 0 THEN 1 ELSE IF n < 0 THEN -1 ELSE 0, 0>>
  ELSE LET s == IF d < 0 THEN -1 ELSE 1
           g == Gcd(Abs(n), Abs(d))
       IN  <<(s * n) \div g, (s * d) \div g>>

Num(k) == <<k, 1>>
Zero == Num(0)
One == Num(1)

Lt(a, b) == a[1] * b[2] < b[1] * a[2]
Gt(a, b) == Lt(b, a)
Le(a, b) == ~Lt(b, a)
Ge(a, b) == ~Lt(a, b)
Neg(a) == <<-a[1], a[2]>>

\* Math.min / Math.max
Min(a, b) == IF Lt(b, a) THEN b ELSE a
Max(a, b) == IF Lt(a, b) THEN b ELSE a
Min3(a, b, c) == Min(Min(a, b), c)

\* a/d > 0 scaled into [2^(p-1), 2^p), rounded half-to-even, scaled back
RECURSIVE FlNorm(_, _, _, _)
FlNorm(a, d, up, down) ==
  IF a >= MantissaLimit * d THEN FlNorm(a, 2 * d, 2 * up, down)
  ELSE IF 2 * a < MantissaLimit * d THEN FlNorm(2 * a, d, up, 2 * down)
  ELSE LET m == a \div d
           r2 == 2 * (a % d)
           mm == IF r2 > d \/ (r2 = d /\ m % 2 = 1) THEN m + 1 ELSE m
       IN  Rat(mm * up, down)

Signed(r, negative) == IF negative THEN Neg(r) ELSE r

\* rounding of an exact result to the nearest representable number
Fl(q) ==
  IF q[2] = 0 THEN q
  ELSE IF q[1] = 0 THEN Zero
  ELSE IF q[2] = 1 /\ Abs(q[1]) < MantissaLimit THEN q
  ELSE Signed(FlNorm(Abs(q[1]), q[2], 1, 1), q[1] < 0)

\* the JavaScript operators +, -, *, / on numbers
FAdd(a, b) == Fl(Rat(a[1] * b[2] + b[1] * a[2], a[2] * b[2]))
FSub(a, b) == Fl(Rat(a[1] * b[2] - b[1] * a[2], a[2] * b[2]))
FMul(a, b) == Fl(Rat(a[1] * b[1], a[2] * b[2]))
FDiv(a, b) == Fl(Rat(a[1] * b[2], a[2] * b[1]))

\* a numeric literal of the source, n/d, as the number it denotes
Lit(n, d) == Fl(Rat(n, d))

\* the literal 0.01 used as the "near zero" threshold
Epsilon == Lit(1, 100)

(***************************************************************************)
(* Identifiers and the catalog (GameData)                                  *)
(***************************************************************************)
STATION_INPUT_ID == "__station_input__"
STATION_OUTPUT_ID == "__station_output__"

\* a null reference (sectorId, sunlightOverride) and an undefined field (mode)
Null == <<>>
Undefined == "undefined"

HOUR_IN_SECONDS == 3600
DEFAULT_SUNLIGHT == 100
SUNLIGHT_AFFECTED_WARES == {"energycells"}
FOOD_WARE_ID == "foodrations"
MEDICAL_WARE_ID == "medicalsupplies"
WORKFORCE_BUSY == [food |-> 75, medical |-> 45, per |-> 200, cycle |-> 600]
WORKFORCE_IDLE == [food |-> 50, medical |-> 30, per |-> 200, cycle |-> 600]

\* the read-only catalog the loader supplies: recipes in key order, and the
\* production, habitat and storage blueprints by blueprint id
Catalog ==
  [recipes |-> <<
     [key |-> <<"ore", "default">>, wareId |-> "ore", time |-> 1800,
      amount |-> 30, inputs |-> <<>>, workforceBonus |-> Zero],
     [key |-> <<"refinedmetals", "default">>, wareId |-> "refinedmetals",
      time |-> 3600, amount |-> 50,
      inputs |-> <<[ware |-> "ore", amount |-> 100]>>,
      workforceBonus |-> Lit(1, 4)],
     [key |-> <<"energycells", "default">>, wareId |-> "energycells",
      time |-> 60, amount |-> 2, inputs |-> <<>>, workforceBonus |-> Zero]
   >>,
   production |->
     [b \in {"prod_gen_ore", "prod_gen_refinedmetals", "prod_gen_energycells"} |->
        [id |-> b,
         producedWareId |-> CASE b = "prod_gen_ore" -> "ore"
                              [] b = "prod_gen_refinedmetals" -> "refinedmetals"
                              [] OTHER -> "energycells",
         workforceMax |-> IF b = "prod_gen_refinedmetals" THEN 100 ELSE 0]],
   habitat |->
     [b \in {"hab_arg_s"} |-> [id |-> b, workforceCapacity |-> 50]],
   storage |->
     [b \in {"storage_arg_s"} |-> [id |-> b]]]

\* module.id.includes('_imp_') and the like: the method a blueprint id hints at
InferredMethod(id) ==
  CASE id \in {"prod_imp_ore"} -> "imperial"
    [] id \in {"prod_sith_ore"} -> "sith"
    [] id \in {"prod_ter_ore"} -> "terran"
    [] OTHER -> "default"

(***************************************************************************)
(* Lists of ResourceAmount and Map<wareId, number>, both kept as sequences *)
(* of [wareId, amount] in insertion order                                  *)
(***************************************************************************)
RA(w, a) == [wareId |-> w, amount |-> a]

\* findIndex by wareId: the first index holding w, or 0
RECURSIVE IndexFrom(_, _, _)
IndexFrom(list, w, i) ==
  IF i > Len(list) THEN 0
  ELSE IF list[i].wareId = w THEN i
  ELSE IndexFrom(list, w, i + 1)

IndexOfWare(list, w) == IndexFrom(list, w, 1)

\* map.get(w) ?? 0   (also map.get(w) || 0, and list.find(...)?.amount ?? 0)
MapGet(m, w) ==
  LET i == IndexOfWare(m, w) IN IF i = 0 THEN Zero ELSE m[i].amount

\* map.set(w, v): the value in place, a new key at the end
MapSet(m, w, v) ==
  LET i == IndexOfWare(m, w)
  IN  IF i = 0 THEN Append(m, RA(w, v)) ELSE [m EXCEPT ![i].amount = v]

RemoveAt(list, i) ==
  [k \in 1..(Len(list) - 1) |-> IF k < i THEN list[k] ELSE list[k + 1]]

RECURSIVE FilterGt(_, _)
FilterGt(list, bound) ==
  IF list = <<>> THEN <<>>
  ELSE IF Gt(Head(list).amount, bound)
       THEN <<Head(list)>> \o FilterGt(Tail(list), bound)
       ELSE FilterGt(Tail(list), bound)

\* stable insertion of r into a list sorted by descending amount
RECURSIVE InsertDesc(_, _)
InsertDesc(sorted, r) ==
  IF sorted = <<>> THEN <<r>>
  ELSE IF Lt(Head(sorted).amount, r.amount) THEN <<r>> \o sorted
  ELSE <<Head(sorted)>> \o InsertDesc(Tail(sorted), r)

RECURSIVE SortDesc(_)
SortDesc(list) ==
  IF list = <<>> THEN <<>>
  ELSE InsertDesc(SortDesc(SubSeq(list, 1, Len(list) - 1)), list[Len(list)])

RECURSIVE SumByWare(_, _)
SumByWare(resources, map) ==
  IF resources = <<>> THEN map
  ELSE LET res == Head(resources)
       IN  SumByWare(Tail(resources),
                     MapSet(map, res.wareId, FAdd(MapGet(map, res.wareId), res.amount)))

\* engine/index.ts aggregateResources: sum by ware, drop amounts <= 0.01,
\* sort by descending amount
aggregateResources(resources) ==
  SortDesc(FilterGt(SumByWare(resources, <<>>), Epsilon))

\* computeNetwork.ts aggregateResources: the same with the filter amount > 0
aggregateResourcesNetwork(resources) ==
  SortDesc(FilterGt(SumByWare(resources, <<>>), Zero))

(***************************************************************************)
(* Rate modifiers: engine/sunlight.ts                                      *)
(***************************************************************************)
RECURSIVE FindSector(_, _)
FindSector(sectors, id) ==
  IF sectors = <<>> THEN Null
  ELSE IF Head(sectors).id = id THEN Head(sectors)
  ELSE FindSector(Tail(sectors), id)

\* the override tested for truthiness: an override of 0 counts as unset
getEffectiveSunlightFalsyOverride(station, sectors) ==
  IF station.sunlightOverride # Null /\ station.sunlightOverride # Zero
  THEN station.sunlightOverride
  ELSE IF station.sectorId # Null /\ FindSector(sectors, station.sectorId) # Null
       THEN FindSector(sectors, station.sectorId).sunlight
  ELSE Num(DEFAULT_SUNLIGHT)

\* station override > sector sunlight > default
getEffectiveSunlight(station, sectors) ==
  IF station.sunlightOverride # Null THEN station.sunlightOverride
  ELSE IF station.sectorId # Null /\ FindSector(sectors, station.sectorId) # Null
       THEN FindSector(sectors, station.sectorId).sunlight
  ELSE Num(DEFAULT_SUNLIGHT)

getSunlightMultiplier(wareId, effectiveSunlight) ==
  IF wareId \in SUNLIGHT_AFFECTED_WARES
  THEN FDiv(effectiveSunlight, Num(100))
  ELSE One

\* (busy * (busy rate / per) + idle * (idle rate / per)) * hourlyMultiplier
workforceDemand(busyWorkers, idleWorkers, busyRate, idleRate) ==
  FMul(FAdd(FMul(busyWorkers, FDiv(Num(busyRate), Num(WORKFORCE_BUSY.per))),
            FMul(idleWorkers, FDiv(Num(idleRate), Num(WORKFORCE_IDLE.per)))),
       FDiv(Num(HOUR_IN_SECONDS), Num(WORKFORCE_BUSY.cycle)))

\* the ratio without the cap at 1.0
workerRatioUncapped(actualPopulation, totalWorkforceRequired) ==
  IF Gt(totalWorkforceRequired, Zero)
  THEN FDiv(actualPopulation, totalWorkforceRequired)
  ELSE Zero

\* the ratio without the test of the divisor
workerRatioUnguarded(actualPopulation, totalWorkforceRequired) ==
  Min(FDiv(actualPopulation, totalWorkforceRequired), One)

\* totalWorkforceRequired > 0 ? Math.min(actualPopulation / totalWorkforceRequired, 1.0) : 0
workerRatioOf(actualPopulation, totalWorkforceRequired) ==
  IF Gt(totalWorkforceRequired, Zero)
  THEN Min(FDiv(actualPopulation, totalWorkforceRequired), One)
  ELSE Zero

calculateWorkforceStats(totalWorkforceRequired, totalWorkforceCapacity, fillHabitats) ==
  LET actualPopulation ==
        IF fillHabitats THEN totalWorkforceCapacity
        ELSE Min(totalWorkforceRequired, totalWorkforceCapacity)
      busyWorkers == Min(actualPopulation, totalWorkforceRequired)
      idleWorkers == Max(FSub(actualPopulation, totalWorkforceRequired), Zero)
  IN  [totalRequired |-> totalWorkforceRequired,
       totalCapacity |-> totalWorkforceCapacity,
       actualPopulation |-> actualPopulation,
       busyWorkers |-> busyWorkers,
       idleWorkers |-> idleWorkers,
       workerRatio |-> workerRatioOf(actualPopulation, totalWorkforceRequired),
       foodDemand |->
         workforceDemand(busyWorkers, idleWorkers,
                         WORKFORCE_BUSY.food, WORKFORCE_IDLE.food),
       medicalDemand |->
         workforceDemand(busyWorkers, idleWorkers,
                         WORKFORCE_BUSY.medical, WORKFORCE_IDLE.medical)]

getWorkforceMultiplier(workforceBonus, workerRatio) ==
  FAdd(One, FMul(workforceBonus, workerRatio))

getWorkforceUpkeepForCapacity(stats, moduleCapacity) ==
  IF Le(stats.totalCapacity, Zero) \/ Le(moduleCapacity, Zero) THEN <<>>
  ELSE LET share == FDiv(moduleCapacity, stats.totalCapacity)
       IN  (IF Gt(stats.foodDemand, Zero)
            THEN <<RA(FOOD_WARE_ID, FMul(stats.foodDemand, share))>> ELSE <<>>)
           \o
           (IF Gt(stats.medicalDemand, Zero)
            THEN <<RA(MEDICAL_WARE_ID, FMul(stats.medicalDemand, share))>> ELSE <<>>)

(***************************************************************************)
(* Module evaluator: engine/index.ts                                       *)
(***************************************************************************)
RECURSIVE RecipeWhere(_, _, _)
\* the first recipe with the given key (byKey) or producing the given ware
RecipeWhere(recipes, what, byKey) ==
  IF recipes = <<>> THEN Null
  ELSE IF (byKey /\ Head(recipes).key = what) \/ (~byKey /\ Head(recipes).wareId = what)
       THEN Head(recipes)
  ELSE RecipeWhere(Tail(recipes), what, byKey)

findRecipeForModule(module, recipes) ==
  LET wareId == module.producedWareId
      inferred == RecipeWhere(recipes, <<wareId, InferredMethod(module.id)>>, TRUE)
      default == RecipeWhere(recipes, <<wareId, "default">>, TRUE)
  IN  IF inferred # Null THEN inferred
      ELSE IF default # Null THEN default
      ELSE RecipeWhere(recipes, wareId, FALSE)

getModuleType(blueprintId, gameData) ==
  IF blueprintId \in DOMAIN gameData.production THEN "production"
  ELSE IF blueprintId \in DOMAIN gameData.habitat THEN "habitat"
  ELSE IF blueprintId \in DOMAIN gameData.storage THEN "storage"
  ELSE "null"

\* the ModuleComputed returned: net = gross, adjusted later by computeStation
ModuleComputedOf(planModule, grossInputs, grossOutputs) ==
  [moduleId |-> planModule.id,
   blueprintId |-> planModule.blueprintId,
   grossInputs |-> grossInputs,
   grossOutputs |-> grossOutputs,
   netInputs |-> grossInputs,
   netOutputs |-> grossOutputs]

\* the rate of a single module, whatever the count
perHourOfOne(amount, count, outputMultiplier, cyclesPerHour) ==
  FMul(FMul(Num(amount), outputMultiplier), cyclesPerHour)

\* amount * planModule.count * outputMultiplier * cyclesPerHour
perHour(amount, count, outputMultiplier, cyclesPerHour) ==
  FMul(FMul(FMul(Num(amount), Num(count)), outputMultiplier), cyclesPerHour)

\* the output and the inputs per hour of a production module with a recipe
recipeIO(planModule, prodModule, recipe, outputMultiplier, cyclesPerHour) ==
  ModuleComputedOf(
    planModule,
    [i \in 1..Len(recipe.inputs) |->
       RA(recipe.inputs[i].ware,
          perHour(recipe.inputs[i].amount, planModule.count,
                  outputMultiplier, cyclesPerHour))],
    <<RA(prodModule.producedWareId,
         perHour(recipe.amount, planModule.count, outputMultiplier, cyclesPerHour))>>)

\* if (recipe) { outputMultiplier, cyclesPerHour, ... }
productionIO(planModule, prodModule, recipe, effectiveSunlight, workerRatio) ==
  IF recipe = Null THEN ModuleComputedOf(planModule, <<>>, <<>>)
  ELSE recipeIO(planModule, prodModule, recipe,
                FMul(getSunlightMultiplier(prodModule.producedWareId, effectiveSunlight),
                     getWorkforceMultiplier(recipe.workforceBonus, workerRatio)),
                FDiv(Num(HOUR_IN_SECONDS), Num(recipe.time)))

\* gross inputs and outputs per hour of one module
computeModuleIO(planModule, gameData, effectiveSunlight, workerRatio) ==
  IF getModuleType(planModule.blueprintId, gameData) = "production"
  THEN productionIO(planModule,
                    gameData.production[planModule.blueprintId],
                    findRecipeForModule(gameData.production[planModule.blueprintId],
                                        gameData.recipes),
                    effectiveSunlight, workerRatio)
  ELSE ModuleComputedOf(planModule, <<>>, <<>>)

(***************************************************************************)
(* Station evaluator: engine/index.ts                                      *)
(***************************************************************************)
\* conn.mode ?? 'auto'
ModeOf(conn) == IF conn.mode = Undefined THEN "auto" ELSE conn.mode

CC(id, eff, sc, tc) ==
  [connectionId |-> id, effectiveAmount |-> eff,
   sourceConstrained |-> sc, targetConstrained |-> tc]

RECURSIVE ToMap(_, _)
\* for (const r of list) map.set(r.wareId, r.amount)
ToMap(list, map) ==
  IF list = <<>> THEN map
  ELSE ToMap(Tail(list), MapSet(map, Head(list).wareId, Head(list).amount))

\* the bookkeeping of the connection loops: per module id the remaining
\* output and input, the amounts supplied and exported by internal
\* connections, and the ConnectionComputed records pushed so far
InitialTracking(moduleComputeds) ==
  LET ids == {moduleComputeds[i].moduleId : i \in DOMAIN moduleComputeds}
      ById(id) == moduleComputeds[CHOOSE i \in DOMAIN moduleComputeds :
                                    moduleComputeds[i].moduleId = id]
  IN  [moduleSupplied |-> [id \in ids |-> <<>>],
       moduleExported |-> [id \in ids |-> <<>>],
       moduleRemainingOutput |-> [id \in ids |-> ToMap(ById(id).grossOutputs, <<>>)],
       moduleRemainingInput |-> [id \in ids |-> ToMap(ById(id).grossInputs, <<>>)],
       moduleConnectionComputeds |-> <<>>]

\* the flags of the auto/max branch written with <= for <
moduleConnectionComputedNonStrict(conn, sourceAvailable, targetNeed) ==
  IF ModeOf(conn) = "custom"
  THEN CC(conn.id, Min3(conn.amount, sourceAvailable, targetNeed),
          Gt(conn.amount, sourceAvailable), Gt(conn.amount, targetNeed))
  ELSE CC(conn.id, Min(sourceAvailable, targetNeed),
          Le(sourceAvailable, targetNeed), Le(targetNeed, sourceAvailable))

\* the switch on the mode of a module-to-module connection, and the record
\* pushed for it
moduleConnectionComputed(conn, sourceAvailable, targetNeed) ==
  CASE ModeOf(conn) = "custom" ->
         CC(conn.id, Min3(conn.amount, sourceAvailable, targetNeed),
            Gt(conn.amount, sourceAvailable), Gt(conn.amount, targetNeed))
    [] ModeOf(conn) = "max" ->
         CC(conn.id, Min(sourceAvailable, targetNeed),
            Lt(sourceAvailable, targetNeed), Lt(targetNeed, sourceAvailable))
    [] OTHER ->
         CC(conn.id, Min(sourceAvailable, targetNeed),
            Lt(sourceAvailable, targetNeed), Lt(targetNeed, sourceAvailable))

\* one iteration of the module-to-module loop
moduleToModuleStep(conn, t) ==
  LET hasSource == conn.sourceModuleId \in DOMAIN t.moduleRemainingOutput
      hasTarget == conn.targetModuleId \in DOMAIN t.moduleRemainingInput
      sourceAvailable ==
        IF hasSource THEN MapGet(t.moduleRemainingOutput[conn.sourceModuleId], conn.wareId)
        ELSE Zero
      targetNeed ==
        IF hasTarget THEN MapGet(t.moduleRemainingInput[conn.targetModuleId], conn.wareId)
        ELSE Zero
      cc == moduleConnectionComputed(conn, sourceAvailable, targetNeed)
      effectiveAmount == cc.effectiveAmount
      remOut ==
        IF hasSource
        THEN [t.moduleRemainingOutput EXCEPT ![conn.sourceModuleId] =
                MapSet(@, conn.wareId, FSub(sourceAvailable, effectiveAmount))]
        ELSE t.moduleRemainingOutput
      remIn ==
        IF hasTarget
        THEN [t.moduleRemainingInput EXCEPT ![conn.targetModuleId] =
                MapSet(@, conn.wareId, FSub(targetNeed, effectiveAmount))]
        ELSE t.moduleRemainingInput
      supplied ==
        IF conn.targetModuleId \in DOMAIN t.moduleSupplied
        THEN [t.moduleSupplied EXCEPT ![conn.targetModuleId] =
                MapSet(@, conn.wareId, FAdd(MapGet(@, conn.wareId), effectiveAmount))]
        ELSE t.moduleSupplied
      exported ==
        IF conn.sourceModuleId \in DOMAIN t.moduleExported
        THEN [t.moduleExported EXCEPT ![conn.sourceModuleId] =
                MapSet(@, conn.wareId, FAdd(MapGet(@, conn.wareId), effectiveAmount))]
        ELSE t.moduleExported
  IN  [moduleSupplied |-> supplied,
       moduleExported |-> exported,
       moduleRemainingOutput |-> remOut,
       moduleRemainingInput |-> remIn,
       moduleConnectionComputeds |-> Append(t.moduleConnectionComputeds, cc)]

\* one iteration of the Station Input loop: the source is external, unlimited
stationInputStep(conn, t) ==
  LET mode == ModeOf(conn)
      hasTarget == conn.targetModuleId \in DOMAIN t.moduleRemainingInput
      targetNeed ==
        IF hasTarget THEN MapGet(t.moduleRemainingInput[conn.targetModuleId], conn.wareId)
        ELSE Zero
      effectiveAmount ==
        IF mode = "custom" THEN Min(conn.amount, targetNeed) ELSE targetNeed
      targetConstrained == mode = "custom" /\ Gt(conn.amount, targetNeed)
  IN  [t EXCEPT
         !.moduleRemainingInput =
           IF hasTarget
           THEN [@ EXCEPT ![conn.targetModuleId] =
                   MapSet(@, conn.wareId, FSub(targetNeed, effectiveAmount))]
           ELSE @,
         !.moduleConnectionComputeds =
           Append(@, CC(conn.id, effectiveAmount, FALSE, targetConstrained))]

\* one iteration of the Station Output loop: the target is external, unlimited
stationOutputStep(conn, t) ==
  LET mode == ModeOf(conn)
      hasSource == conn.sourceModuleId \in DOMAIN t.moduleRemainingOutput
      sourceAvailable ==
        IF hasSource THEN MapGet(t.moduleRemainingOutput[conn.sourceModuleId], conn.wareId)
        ELSE Zero
      effectiveAmount ==
        IF mode = "custom" THEN Min(conn.amount, sourceAvailable) ELSE sourceAvailable
      sourceConstrained == mode = "custom" /\ Gt(conn.amount, sourceAvailable)
  IN  [t EXCEPT
         !.moduleRemainingOutput =
           IF hasSource
           THEN [@ EXCEPT ![conn.sourceModuleId] =
                   MapSet(@, conn.wareId, FSub(sourceAvailable, effectiveAmount))]
           ELSE @,
         !.moduleConnectionComputeds =
           Append(@, CC(conn.id, effectiveAmount, sourceConstrained, FALSE))]

RECURSIVE resolveModuleToModule(_, _)
resolveModuleToModule(conns, t) ==
  IF conns = <<>> THEN t
  ELSE resolveModuleToModule(Tail(conns), moduleToModuleStep(Head(conns), t))

RECURSIVE resolveStationInput(_, _)
resolveStationInput(conns, t) ==
  IF conns = <<>> THEN t
  ELSE resolveStationInput(Tail(conns), stationInputStep(Head(conns), t))

RECURSIVE resolveStationOutput(_, _)
resolveStationOutput(conns, t) ==
  IF conns = <<>> THEN t
  ELSE resolveStationOutput(Tail(conns), stationOutputStep(Head(conns), t))

\* the three groups of station.moduleConnections, each in list order
IsModuleToModule(c) ==
  c.sourceModuleId # STATION_INPUT_ID /\ c.targetModuleId # STATION_OUTPUT_ID
IsStationInput(c) == c.sourceModuleId = STATION_INPUT_ID
IsStationOutput(c) == c.targetModuleId = STATION_OUTPUT_ID

moduleToModuleConnections(moduleConnections) ==
  SelectSeq(moduleConnections, IsModuleToModule)
stationInputConnections(moduleConnections) ==
  SelectSeq(moduleConnections, IsStationInput)
stationOutputConnections(moduleConnections) ==
  SelectSeq(moduleConnections, IsStationOutput)

RECURSIVE FindComputed(_, _)
\* computeds.find((cc) => cc.connectionId === id), Null when there is none
FindComputed(computeds, id) ==
  IF computeds = <<>> THEN Null
  ELSE IF Head(computeds).connectionId = id THEN Head(computeds)
  ELSE FindComputed(Tail(computeds), id)

\* gross - satisfied per entry, kept when the remainder is above 0.01
RECURSIVE NetOf(_, _)
NetOf(gross, satisfied) ==
  IF gross = <<>> THEN <<>>
  ELSE LET remaining ==
             FSub(Head(gross).amount, MapGet(satisfied, Head(gross).wareId))
       IN  (IF Gt(remaining, Epsilon)
            THEN <<RA(Head(gross).wareId, remaining)>> ELSE <<>>)
           \o NetOf(Tail(gross), satisfied)

\* the stored amounts instead of the effective ones
BoundaryAmountsStored(conns, computeds) ==
  [i \in 1..Len(conns) |-> RA(conns[i].wareId, conns[i].amount)]

\* the effective amounts of the connections of one boundary group
BoundaryAmounts(conns, computeds) ==
  [i \in 1..Len(conns) |->
     RA(conns[i].wareId,
        IF FindComputed(computeds, conns[i].id) # Null
        THEN FindComputed(computeds, conns[i].id).effectiveAmount
        ELSE conns[i].amount)]

\* prodModule.workforceMax * planModule.count of a production module
workforceRequired(planModule, gameData) ==
  IF getModuleType(planModule.blueprintId, gameData) = "production"
  THEN FMul(Num(gameData.production[planModule.blueprintId].workforceMax),
            Num(planModule.count))
  ELSE Zero

\* habModule.workforceCapacity * planModule.count of a habitat module
workforceCapacity(planModule, gameData) ==
  IF getModuleType(planModule.blueprintId, gameData) = "habitat"
  THEN FMul(Num(gameData.habitat[planModule.blueprintId].workforceCapacity),
            Num(planModule.count))
  ELSE Zero

RECURSIVE sumWorkforceRequired(_, _, _)
\* first pass: totalWorkforceRequired += ...
sumWorkforceRequired(modules, gameData, total) ==
  IF modules = <<>> THEN total
  ELSE sumWorkforceRequired(Tail(modules), gameData,
                              FAdd(total, workforceRequired(Head(modules), gameData)))

RECURSIVE sumWorkforceCapacity(_, _, _)
\* first pass: totalWorkforceCapacity += ...
sumWorkforceCapacity(modules, gameData, total) ==
  IF modules = <<>> THEN total
  ELSE sumWorkforceCapacity(Tail(modules), gameData,
                              FAdd(total, workforceCapacity(Head(modules), gameData)))

\* mc.grossInputs.push(...upkeep); mc.netInputs = [...mc.grossInputs]
withUpkeep(mc, upkeep) ==
  [mc EXCEPT !.grossInputs = mc.grossInputs \o upkeep,
             !.netInputs = mc.grossInputs \o upkeep]

\* computeModuleIO of one module, then food/medical upkeep on a habitat
moduleWithUpkeep(planModule, gameData, effectiveSunlight, workforceStats) ==
  withUpkeep(computeModuleIO(planModule, gameData, effectiveSunlight,
                             workforceStats.workerRatio),
             IF getModuleType(planModule.blueprintId, gameData) = "habitat"
             THEN getWorkforceUpkeepForCapacity(workforceStats,
                                                workforceCapacity(planModule, gameData))
             ELSE <<>>)

\* net = gross - what internal connections supplied (exported), above 0.01
moduleNet(mc, tracking) ==
  [mc EXCEPT
     !.netInputs = NetOf(mc.grossInputs, tracking.moduleSupplied[mc.moduleId]),
     !.netOutputs = NetOf(mc.grossOutputs, tracking.moduleExported[mc.moduleId])]

RECURSIVE netInputsOfGross(_)
\* the gross inputs in place of the net ones
netInputsOfGross(moduleComputeds) ==
  IF moduleComputeds = <<>> THEN <<>>
  ELSE Head(moduleComputeds).grossInputs \o netInputsOfGross(Tail(moduleComputeds))

RECURSIVE netInputsOf(_)
\* moduleComputeds.flatMap((m) => m.netInputs)
netInputsOf(moduleComputeds) ==
  IF moduleComputeds = <<>> THEN <<>>
  ELSE Head(moduleComputeds).netInputs \o netInputsOf(Tail(moduleComputeds))

RECURSIVE netOutputsOf(_)
netOutputsOf(moduleComputeds) ==
  IF moduleComputeds = <<>> THEN <<>>
  ELSE Head(moduleComputeds).netOutputs \o netOutputsOf(Tail(moduleComputeds))

RECURSIVE grossInputsOf(_)
grossInputsOf(moduleComputeds) ==
  IF moduleComputeds = <<>> THEN <<>>
  ELSE Head(moduleComputeds).grossInputs \o grossInputsOf(Tail(moduleComputeds))

RECURSIVE grossOutputsOf(_)
grossOutputsOf(moduleComputeds) ==
  IF moduleComputeds = <<>> THEN <<>>
  ELSE Head(moduleComputeds).grossOutputs \o grossOutputsOf(Tail(moduleComputeds))

\* the StationComputed returned by computeStation
StationComputedOf(station, effectiveSunlight, workforceStats, moduleComputeds, moduleConnectionComputeds, netInputs, netOutputs, stationInputs, stationOutputs) ==
  [stationId |-> station.id,
   effectiveSunlight |-> effectiveSunlight,
   totalWorkforceRequired |-> workforceStats.totalRequired,
   totalWorkforceCapacity |-> workforceStats.totalCapacity,
   actualPopulation |-> workforceStats.actualPopulation,
   workforceFoodDemand |-> workforceStats.foodDemand,
   workforceMedicalDemand |-> workforceStats.medicalDemand,
   modules |-> moduleComputeds,
   grossInputs |-> aggregateResources(grossInputsOf(moduleComputeds)),
   grossOutputs |-> aggregateResources(grossOutputsOf(moduleComputeds)),
   netInputs |-> netInputs,
   netOutputs |-> netOutputs,
   availableForImport |-> NetOf(netInputs, stationInputs),
   availableForExport |-> NetOf(netOutputs, stationOutputs),
   stationInputs |-> stationInputs,
   stationOutputs |-> stationOutputs,
   externallySupplied |-> <<>>,
   externallyConsumed |-> <<>>,
   remainingInputs |-> stationInputs,
   remainingOutputs |-> stationOutputs,
   moduleConnections |-> moduleConnectionComputeds]

\* computeStation from the net amounts of the modules on: the aggregates
stationAggregates(station, effectiveSunlight, workforceStats, moduleComputeds, moduleConnectionComputeds) ==
  StationComputedOf(
    station, effectiveSunlight, workforceStats, moduleComputeds,
    moduleConnectionComputeds,
    aggregateResources(netInputsOf(moduleComputeds)),
    aggregateResources(netOutputsOf(moduleComputeds)),
    aggregateResources(
      BoundaryAmounts(stationInputConnections(station.moduleConnections),
                      moduleConnectionComputeds)),
    aggregateResources(
      BoundaryAmounts(stationOutputConnections(station.moduleConnections),
                      moduleConnectionComputeds)))

\* computeStation from the end of the three connection loops on
stationNet(station, effectiveSunlight, workforceStats, moduleGross, tracking) ==
  stationAggregates(station, effectiveSunlight, workforceStats,
                    [i \in 1..Len(moduleGross) |-> moduleNet(moduleGross[i], tracking)],
                    tracking.moduleConnectionComputeds)

RECURSIVE resolveInListOrder(_, _)
\* one loop over all connections in the order of the list
resolveInListOrder(conns, t) ==
  IF conns = <<>> THEN t
  ELSE resolveInListOrder(
         Tail(conns),
         IF IsModuleToModule(Head(conns)) THEN moduleToModuleStep(Head(conns), t)
         ELSE IF IsStationInput(Head(conns)) THEN stationInputStep(Head(conns), t)
         ELSE stationOutputStep(Head(conns), t))

\* the connections resolved in list order, not grouped by kind
stationConnectionsInListOrder(station, effectiveSunlight, workforceStats, moduleGross) ==
  stationNet(
    station, effectiveSunlight, workforceStats, moduleGross,
    resolveInListOrder(station.moduleConnections, InitialTracking(moduleGross)))

\* computeStation from the connection loops on: module-to-module, then
\* Station Input, then Station Output
stationConnections(station, effectiveSunlight, workforceStats, moduleGross) ==
  stationNet(
    station, effectiveSunlight, workforceStats, moduleGross,
    resolveStationOutput(
      stationOutputConnections(station.moduleConnections),
      resolveStationInput(
        stationInputConnections(station.moduleConnections),
        resolveModuleToModule(moduleToModuleConnections(station.moduleConnections),
                              InitialTracking(moduleGross)))))

\* computeStation from the workforce stats on: the modules' gross amounts
stationModules(station, gameData, effectiveSunlight, workforceStats) ==
  stationConnections(
    station, effectiveSunlight, workforceStats,
    [i \in 1..Len(station.modules) |->
       moduleWithUpkeep(station.modules[i], gameData, effectiveSunlight,
                        workforceStats)])

computeStation(station, sectors, gameData) ==
  stationModules(
    station, gameData, getEffectiveSunlight(station, sectors),
    calculateWorkforceStats(sumWorkforceRequired(station.modules, gameData, Zero),
                            sumWorkforceCapacity(station.modules, gameData, Zero),
                            station.fillHabitats))

(***************************************************************************)
(* Network evaluator: engine/computeNetwork.ts                             *)
(***************************************************************************)
\* remaining output per ware of a station: stationOutputs capped by netOutputs
RECURSIVE SeedRemainingOutput(_, _, _)
SeedRemainingOutput(outputs, netOutputs, map) ==
  IF outputs = <<>> THEN map
  ELSE LET output == Head(outputs)
           i == IndexOfWare(netOutputs, output.wareId)
           available ==
             Min(output.amount, IF i = 0 THEN output.amount ELSE netOutputs[i].amount)
       IN  SeedRemainingOutput(Tail(outputs), netOutputs,
                               MapSet(map, output.wareId, available))

InitialNetworkTracking(stationComputeds) ==
  LET ids == {stationComputeds[i].stationId : i \in DOMAIN stationComputeds}
      ById(id) == stationComputeds[CHOOSE i \in DOMAIN stationComputeds :
                                     stationComputeds[i].stationId = id]
  IN  [stationSupplied |-> [id \in ids |-> <<>>],
       stationConsumed |-> [id \in ids |-> <<>>],
       stationRemainingOutput |->
         [id \in ids |->
            SeedRemainingOutput(ById(id).stationOutputs, ById(id).netOutputs, <<>>)],
       stationRemainingInput |-> [id \in ids |-> ToMap(ById(id).stationInputs, <<>>)],
       connectionComputeds |-> <<>>]

\* the custom branch capped by the source only
connectionComputedUncappedByTarget(conn, sourceAvailable, targetNeed) ==
  IF ModeOf(conn) = "custom"
  THEN CC(conn.id, Min(conn.amount, sourceAvailable),
          Gt(conn.amount, sourceAvailable), Gt(conn.amount, targetNeed))
  ELSE CC(conn.id, Min(sourceAvailable, targetNeed),
          Lt(sourceAvailable, targetNeed), Lt(targetNeed, sourceAvailable))

\* case 'max' taking all the source has, whatever the target needs
connectionComputedMaxFromSource(conn, sourceAvailable, targetNeed) ==
  CASE ModeOf(conn) = "custom" ->
         CC(conn.id, Min3(conn.amount, sourceAvailable, targetNeed),
            Gt(conn.amount, sourceAvailable), Gt(conn.amount, targetNeed))
    [] ModeOf(conn) = "max" ->
         CC(conn.id, sourceAvailable, FALSE, Lt(targetNeed, sourceAvailable))
    [] OTHER ->
         CC(conn.id, Min(sourceAvailable, targetNeed),
            Lt(sourceAvailable, targetNeed), Lt(targetNeed, sourceAvailable))

\* the switch on the mode of an inter-station connection, and the record
\* pushed for it
connectionComputed(conn, sourceAvailable, targetNeed) ==
  CASE ModeOf(conn) = "custom" ->
         CC(conn.id, Min3(conn.amount, sourceAvailable, targetNeed),
            Gt(conn.amount, sourceAvailable), Gt(conn.amount, targetNeed))
    [] ModeOf(conn) = "max" ->
         CC(conn.id, Min(sourceAvailable, targetNeed),
            Lt(sourceAvailable, targetNeed), Lt(targetNeed, sourceAvailable))
    [] OTHER ->
         CC(conn.id, Min(sourceAvailable, targetNeed),
            Lt(sourceAvailable, targetNeed), Lt(targetNeed, sourceAvailable))

\* a source station that is not in the plan taken as able to supply any need
connectionStepUnknownSourceUnlimited(conn, t) ==
  LET hasSource == conn.sourceStationId \in DOMAIN t.stationRemainingOutput
      hasTarget == conn.targetStationId \in DOMAIN t.stationRemainingInput
      sourceAvailable ==
        IF hasSource THEN MapGet(t.stationRemainingOutput[conn.sourceStationId], conn.wareId)
        ELSE IF hasTarget
             THEN MapGet(t.stationRemainingInput[conn.targetStationId], conn.wareId)
        ELSE Zero
      targetNeed ==
        IF hasTarget THEN MapGet(t.stationRemainingInput[conn.targetStationId], conn.wareId)
        ELSE Zero
      cc == connectionComputed(conn, sourceAvailable, targetNeed)
      effectiveAmount == cc.effectiveAmount
  IN  [stationSupplied |->
         IF hasTarget
         THEN [t.stationSupplied EXCEPT ![conn.targetStationId] =
                 MapSet(@, conn.wareId, FAdd(MapGet(@, conn.wareId), effectiveAmount))]
         ELSE t.stationSupplied,
       stationConsumed |->
         IF hasSource
         THEN [t.stationConsumed EXCEPT ![conn.sourceStationId] =
                 MapSet(@, conn.wareId, FAdd(MapGet(@, conn.wareId), effectiveAmount))]
         ELSE t.stationConsumed,
       stationRemainingOutput |->
         IF hasSource
         THEN [t.stationRemainingOutput EXCEPT ![conn.sourceStationId] =
                 MapSet(@, conn.wareId, FSub(sourceAvailable, effectiveAmount))]
         ELSE t.stationRemainingOutput,
       stationRemainingInput |->
         IF hasTarget
         THEN [t.stationRemainingInput EXCEPT ![conn.targetStationId] =
                 MapSet(@, conn.wareId, FSub(targetNeed, effectiveAmount))]
         ELSE t.stationRemainingInput,
       connectionComputeds |-> Append(t.connectionComputeds, cc)]

\* one iteration of the inter-station connection loop
connectionStep(conn, t) ==
  LET hasSource == conn.sourceStationId \in DOMAIN t.stationRemainingOutput
      hasTarget == conn.targetStationId \in DOMAIN t.stationRemainingInput
      sourceAvailable ==
        IF hasSource THEN MapGet(t.stationRemainingOutput[conn.sourceStationId], conn.wareId)
        ELSE Zero
      targetNeed ==
        IF hasTarget THEN MapGet(t.stationRemainingInput[conn.targetStationId], conn.wareId)
        ELSE Zero
      cc == connectionComputed(conn, sourceAvailable, targetNeed)
      effectiveAmount == cc.effectiveAmount
  IN  [stationSupplied |->
         IF hasTarget
         THEN [t.stationSupplied EXCEPT ![conn.targetStationId] =
                 MapSet(@, conn.wareId, FAdd(MapGet(@, conn.wareId), effectiveAmount))]
         ELSE t.stationSupplied,
       stationConsumed |->
         IF hasSource
         THEN [t.stationConsumed EXCEPT ![conn.sourceStationId] =
                 MapSet(@, conn.wareId, FAdd(MapGet(@, conn.wareId), effectiveAmount))]
         ELSE t.stationConsumed,
       stationRemainingOutput |->
         IF hasSource
         THEN [t.stationRemainingOutput EXCEPT ![conn.sourceStationId] =
                 MapSet(@, conn.wareId, FSub(sourceAvailable, effectiveAmount))]
         ELSE t.stationRemainingOutput,
       stationRemainingInput |->
         IF hasTarget
         THEN [t.stationRemainingInput EXCEPT ![conn.targetStationId] =
                 MapSet(@, conn.wareId, FSub(targetNeed, effectiveAmount))]
         ELSE t.stationRemainingInput,
       connectionComputeds |-> Append(t.connectionComputeds, cc)]

RECURSIVE resolveConnectionsReversed(_, _)
\* the list walked from its last connection to its first
resolveConnectionsReversed(conns, t) ==
  IF conns = <<>> THEN t
  ELSE resolveConnectionsReversed(SubSeq(conns, 1, Len(conns) - 1),
                                  connectionStep(conns[Len(conns)], t))

RECURSIVE resolveConnections(_, _)
resolveConnections(conns, t) ==
  IF conns = <<>> THEN t
  ELSE resolveConnections(Tail(conns), connectionStep(Head(conns), t))

RECURSIVE SumAmounts(_, _)
\* conns.reduce((sum, c) => sum + c.amount, 0)
SumAmounts(conns, sum) ==
  IF conns = <<>> THEN sum ELSE SumAmounts(Tail(conns), FAdd(sum, Head(conns).amount))

RECURSIVE FindModuleIndex(_, _, _)
FindModuleIndex(modules, id, i) ==
  IF i > Len(modules) THEN 0
  ELSE IF modules[i].moduleId = id THEN i
  ELSE FindModuleIndex(modules, id, i + 1)

\* the entry kept whatever is left of it
ReduceNetKept(net, wareId, amount) ==
  LET i == IndexOfWare(net, wareId)
  IN  IF i = 0 THEN net ELSE [net EXCEPT ![i].amount = FSub(@, amount)]

\* net list with the entry of wareId reduced by amount; the entry is removed
\* when the result is not above 0.01
ReduceNet(net, wareId, amount) ==
  LET i == IndexOfWare(net, wareId)
      newNet == FSub(net[i].amount, amount)
  IN  IF i = 0 THEN net
      ELSE IF Gt(newNet, Epsilon) THEN [net EXCEPT ![i].amount = newNet]
      ELSE RemoveAt(net, i)

\* the supply ratio left out of the reduction
cascadeReductionWhole(conn, ratio) == conn.amount

\* const reduction = conn.amount * ratio
cascadeReduction(conn, ratio) == FMul(conn.amount, ratio)

RECURSIVE cascadeConnections(_, _, _, _, _)
\* for (const conn of inputConnections / outputConnections) { ... }
cascadeConnections(modules, conns, wareId, ratio, inputSide) ==
  IF conns = <<>> THEN modules
  ELSE LET conn == Head(conns)
           i == FindModuleIndex(modules,
                                IF inputSide THEN conn.targetModuleId
                                ELSE conn.sourceModuleId, 1)
           share == cascadeReduction(conn, ratio)
           updated ==
             IF i = 0 THEN modules
             ELSE IF inputSide
                  THEN [modules EXCEPT ![i].netInputs = ReduceNet(@, wareId, share)]
                  ELSE [modules EXCEPT ![i].netOutputs = ReduceNet(@, wareId, share)]
       IN  cascadeConnections(updated, Tail(conns), wareId, ratio, inputSide)

\* moduleConnections.filter: the Station Input (Station Output) connections
\* of one ware
boundaryConnections(moduleConnections, wareId, inputSide) ==
  LET Matches(c) ==
        /\ c.wareId = wareId
        /\ IF inputSide THEN c.sourceModuleId = STATION_INPUT_ID
           ELSE c.targetModuleId = STATION_OUTPUT_ID
  IN  SelectSeq(moduleConnections, Matches)

\* one ware of the supplied (consumed) map: the three `continue` tests, then
\* the supply ratio applied to each connection
cascadeWare(modules, conns, wareId, total, totalRequested, inputSide) ==
  IF Lt(total, Epsilon) \/ Len(conns) = 0 \/ Lt(totalRequested, Epsilon)
  THEN modules
  ELSE cascadeConnections(modules, conns, wareId,
                          Min(FDiv(total, totalRequested), One), inputSide)

\* totalRequested = conns.reduce((sum, c) => sum + c.amount, 0)
cascadeEntry(modules, conns, entry, inputSide) ==
  cascadeWare(modules, conns, entry.wareId, entry.amount,
              SumAmounts(conns, Zero), inputSide)

RECURSIVE cascade(_, _, _, _)
\* CASCADE: for each ware of the supplied (consumed) map, in insertion order,
\* spread the total over the Station Input (Output) connections of that ware
\* in proportion to their stored amounts
cascade(modules, moduleConnections, entries, inputSide) ==
  IF entries = <<>> THEN modules
  ELSE cascade(cascadeEntry(modules,
                            boundaryConnections(moduleConnections,
                                                Head(entries).wareId, inputSide),
                            Head(entries), inputSide),
               moduleConnections, Tail(entries), inputSide)

RECURSIVE FindStation(_, _)
\* plan.stations.find((s) => s.id === id)
FindStation(stations, id) ==
  IF stations = <<>> THEN Null
  ELSE IF Head(stations).id = id THEN Head(stations)
  ELSE FindStation(Tail(stations), id)

\* the station record finalised with external supply and consumption
finalizedWith(sc, station, supplied, consumed) ==
  [sc EXCEPT
     !.externallySupplied = FilterGt(supplied, Epsilon),
     !.externallyConsumed = FilterGt(consumed, Epsilon),
     !.remainingInputs = NetOf(sc.stationInputs, supplied),
     !.remainingOutputs = NetOf(sc.stationOutputs, consumed),
     !.modules =
       IF station = Null THEN sc.modules
       ELSE cascade(cascade(sc.modules, station.moduleConnections, supplied, TRUE),
                    station.moduleConnections, consumed, FALSE)]

finalizeStation(sc, plan, t) ==
  finalizedWith(sc, FindStation(plan.stations, sc.stationId),
                t.stationSupplied[sc.stationId], t.stationConsumed[sc.stationId])

RECURSIVE DeficitsOfNonStrict(_, _, _)
\* the test written with <= for <
DeficitsOfNonStrict(stationId, inputs, supplied) ==
  IF inputs = <<>> THEN <<>>
  ELSE LET input == Head(inputs)
           suppliedAmount == MapGet(supplied, input.wareId)
       IN  (IF Le(suppliedAmount, FSub(input.amount, Epsilon))
            THEN <<[wareId |-> input.wareId,
                    stationId |-> stationId,
                    required |-> input.amount,
                    supplied |-> suppliedAmount,
                    deficit |-> FSub(input.amount, suppliedAmount)]>>
            ELSE <<>>)
           \o DeficitsOfNonStrict(stationId, Tail(inputs), supplied)

RECURSIVE DeficitsOf(_, _, _)
\* the deficits of one station, in stationInputs order
DeficitsOf(stationId, inputs, supplied) ==
  IF inputs = <<>> THEN <<>>
  ELSE LET input == Head(inputs)
           suppliedAmount == MapGet(supplied, input.wareId)
       IN  (IF Lt(suppliedAmount, FSub(input.amount, Epsilon))
            THEN <<[wareId |-> input.wareId,
                    stationId |-> stationId,
                    required |-> input.amount,
                    supplied |-> suppliedAmount,
                    deficit |-> FSub(input.amount, suppliedAmount)]>>
            ELSE <<>>)
           \o DeficitsOf(stationId, Tail(inputs), supplied)

RECURSIVE PositiveRemainders(_, _)
\* per entry amount - taken, kept when the remainder is above 0
PositiveRemainders(list, taken) ==
  IF list = <<>> THEN <<>>
  ELSE LET remaining == FSub(Head(list).amount, MapGet(taken, Head(list).wareId))
       IN  (IF Gt(remaining, Zero) THEN <<RA(Head(list).wareId, remaining)>> ELSE <<>>)
           \o PositiveRemainders(Tail(list), taken)

RECURSIVE StoredExportsCustomOnly(_, _, _)
\* the stored amounts of the custom connections only
StoredExportsCustomOnly(connections, stationId, map) ==
  IF connections = <<>> THEN map
  ELSE StoredExportsCustomOnly(
         Tail(connections), stationId,
         IF Head(connections).sourceStationId = stationId
            /\ ModeOf(Head(connections)) = "custom"
         THEN MapSet(map, Head(connections).wareId,
                     FAdd(MapGet(map, Head(connections).wareId), Head(connections).amount))
         ELSE map)

RECURSIVE StoredExports(_, _, _)
\* the stored amounts of the connections leaving a station, summed by ware
StoredExports(connections, stationId, map) ==
  IF connections = <<>> THEN map
  ELSE LET conn == Head(connections)
       IN  StoredExports(Tail(connections), stationId,
                         IF conn.sourceStationId = stationId
                         THEN MapSet(map, conn.wareId,
                                     FAdd(MapGet(map, conn.wareId), conn.amount))
                         ELSE map)

RECURSIVE networkDeficits(_, _)
\* the deficits of all stations, in station order
networkDeficits(stationComputeds, t) ==
  IF stationComputeds = <<>> THEN <<>>
  ELSE DeficitsOf(Head(stationComputeds).stationId,
                  Head(stationComputeds).stationInputs,
                  t.stationSupplied[Head(stationComputeds).stationId])
       \o networkDeficits(Tail(stationComputeds), t)

RECURSIVE allNetInputs(_, _)
\* per station, netInputs less what connections supplied
allNetInputs(stationComputeds, t) ==
  IF stationComputeds = <<>> THEN <<>>
  ELSE PositiveRemainders(Head(stationComputeds).netInputs,
                          t.stationSupplied[Head(stationComputeds).stationId])
       \o allNetInputs(Tail(stationComputeds), t)

RECURSIVE allNetOutputs(_, _)
\* per station, netOutputs less the stored amounts of its outgoing connections
allNetOutputs(stationComputeds, connections) ==
  IF stationComputeds = <<>> THEN <<>>
  ELSE PositiveRemainders(
         Head(stationComputeds).netOutputs,
         StoredExports(connections, Head(stationComputeds).stationId, <<>>))
       \o allNetOutputs(Tail(stationComputeds), connections)

\* the NetworkComputed returned by computeNetwork
NetworkComputedOf(plan, t, stationComputeds) ==
  [stations |-> stationComputeds,
   connections |-> t.connectionComputeds,
   totalInputs |-> aggregateResourcesNetwork(allNetInputs(stationComputeds, t)),
   totalOutputs |->
     aggregateResourcesNetwork(allNetOutputs(stationComputeds, plan.connections)),
   deficits |-> networkDeficits(stationComputeds, t)]

\* computeNetwork from the end of the connection loop on
networkFinalize(plan, computedStations, t) ==
  NetworkComputedOf(
    plan, t,
    [i \in 1..Len(computedStations) |-> finalizeStation(computedStations[i], plan, t)])

\* computeNetwork from the connection loop on
networkConnections(plan, computedStations) ==
  networkFinalize(plan, computedStations,
                  resolveConnections(plan.connections,
                                     InitialNetworkTracking(computedStations)))

computeNetwork(plan, gameData) ==
  networkConnections(
    plan,
    [i \in 1..Len(plan.stations) |->
       computeStation(plan.stations[i], plan.sectors, gameData)])

(***************************************************************************)
(* The plan store: store/planStore.ts                                      *)
(***************************************************************************)
VARIABLES
  plan,       \* usePlanStore: the topology (sectors, stations, connections)
  computed,   \* usePlanStore: the NetworkComputed exposed for rendering
  gameData,   \* useGameDataStore: Null until the catalog has been loaded
  nextId,     \* the number of identifiers nanoid() has handed out, plus one
  planMeta,   \* usePlanStore: plan.id and plan.name
  planIndex,      \* usePlanManagerStore: the PlanMeta of every saved plan
  currentPlanId,  \* usePlanManagerStore: Null or a reference to the open plan
  localStorage    \* the browser's storage: index, current plan id, plan data

vars == <<plan, computed, gameData, nextId, planMeta, planIndex, currentPlanId, localStorage>>

\* bounds of the model
MaxIds == 3
MaxCount == 3
MaxStations == 2

\* the identifiers nanoid() hands out, in order; never reused
Ids == <<"n1", "n2", "n3", "n4", "n5", "n6">>
nanoid == Ids[nextId]
CanCreate == nextId <= MaxIds /\ nextId <= Len(Ids)

\* the inputs the store operations are exercised with
StoreBlueprints == {"prod_gen_ore", "prod_gen_refinedmetals"}
StoreWares == {"ore"}
StoreAmounts == {Num(100)}

createEmptyPlan ==
  [sectors |-> <<>>, stations |-> <<>>, connections |-> <<>>]

createEmptyComputed ==
  [stations |-> <<>>, connections |-> <<>>, totalInputs |-> <<>>,
   totalOutputs |-> <<>>, deficits |-> <<>>]

\* { ...record, ...patch }
Patch(record, patch) ==
  [f \in DOMAIN record |-> IF f \in DOMAIN patch THEN patch[f] ELSE record[f]]

\* list.map((x) => x.id === id ? f(x) : x), with mapped[i] = f(list[i])
MapWhereId(list, id, mapped) ==
  [i \in 1..Len(list) |-> IF list[i].id = id THEN mapped[i] ELSE list[i]]

\* recompute(): the computed state for a plan under the current catalog
Recomputed(p, gd) ==
  IF gd = Null THEN createEmptyComputed ELSE computeNetwork(p, gd)

\* a plan id as currentPlanId and CURRENT_PLAN_KEY hold it; Null is no plan
PlanRef(id) == <<id>>

\* the plan as JSON.stringify(plan) stores it under planKey(id)
StoredPlan(meta, topology) == [id |-> meta.id, name |-> meta.name, topology |-> topology]

\* localStorage.setItem(planKey(id), data)
SetItem(plans, id, data) ==
  [k \in DOMAIN plans \cup {id} |-> IF k = id THEN data ELSE plans[k]]

\* saveCurrentPlan: the index with the plan's name written to its entry
savedIndex(index, meta) ==
  [i \in 1..Len(index) |->
     IF index[i].id = meta.id THEN [index[i] EXCEPT !.name = meta.name] ELSE index[i]]

\* saveCurrentPlan(plan) on the manager state st: nothing without a current
\* plan or for a plan with another id
saveCurrentPlanIn(st, meta, topology) ==
  IF st.currentPlanId = Null \/ PlanRef(meta.id) # st.currentPlanId THEN st
  ELSE [st EXCEPT
          !.planIndex = savedIndex(@, meta),
          !.localStorage =
            [@ EXCEPT !.plans = SetItem(@, meta.id, StoredPlan(meta, topology)),
                      !.index = savedIndex(st.planIndex, meta)]]

\* the plan manager with one saved plan, open in the plan store
ManagerOpenOn(topology) ==
  /\ planMeta = [id |-> "p0", name |-> "New Plan"]
  /\ planIndex = <<planMeta>>
  /\ currentPlanId = PlanRef("p0")
  /\ localStorage = [index |-> planIndex, currentId |-> currentPlanId,
                     plans |-> [k \in {"p0"} |-> StoredPlan(planMeta, topology)]]

\* the state of usePlanManagerStore and of the storage behind it
ManagerState ==
  [planIndex |-> planIndex, currentPlanId |-> currentPlanId, localStorage |-> localStorage]

SetManager(st) ==
  /\ planIndex' = st.planIndex
  /\ currentPlanId' = st.currentPlanId
  /\ localStorage' = st.localStorage

\* setupAutoSave: the subscription calls saveCurrentPlan(state.plan) whenever
\* the store holds a new plan object
AutoSave(meta, topology) == SetManager(saveCurrentPlanIn(ManagerState, meta, topology))

\* set({ plan }) followed by get().recompute()
SetPlanAndRecompute(p) ==
  /\ plan' = p
  /\ computed' = Recomputed(p, gameData)
  /\ AutoSave(planMeta, p)
  /\ UNCHANGED <<gameData, planMeta>>

recompute ==
  /\ computed' = Recomputed(plan, gameData)
  /\ UNCHANGED <<plan, gameData, nextId, planMeta, planIndex, currentPlanId, localStorage>>

\* App.tsx: loadGameData(...).then(data => { setGameData(data); recompute() })
setGameData ==
  /\ gameData = Null
  /\ gameData' = Catalog
  /\ computed' = Recomputed(plan, Catalog)
  /\ UNCHANGED <<plan, nextId, planMeta, planIndex, currentPlanId, localStorage>>

\* the new plan has an id of its own, which no saved plan has
createPlan ==
  /\ CanCreate
  /\ plan' = createEmptyPlan
  /\ planMeta' = [id |-> nanoid, name |-> "New Plan"]
  /\ computed' = createEmptyComputed
  /\ nextId' = nextId + 1
  /\ AutoSave(planMeta', createEmptyPlan)
  /\ UNCHANGED gameData

\* loadPlan(p): connections get locked: false where the field is missing
migratedPlan(p) ==
  LET Migrate(conn) ==
        [conn EXCEPT !.locked = IF @ = Undefined THEN FALSE ELSE @]
  IN  [p EXCEPT !.stations =
         [i \in 1..Len(p.stations) |->
            [p.stations[i] EXCEPT !.moduleConnections =
               [k \in 1..Len(@) |-> Migrate(@[k])]]]]

loadPlan(p) ==
  /\ SetPlanAndRecompute(migratedPlan(p))
  /\ UNCHANGED nextId

\* addStation(name, position): the only station operation without recompute
addStation ==
  /\ CanCreate
  /\ Len(plan.stations) < MaxStations
  /\ plan' = [plan EXCEPT !.stations =
                Append(@, [id |-> nanoid, sectorId |-> Null,
                           sunlightOverride |-> Null, fillHabitats |-> FALSE,
                           modules |-> <<>>, moduleConnections |-> <<>>])]
  /\ nextId' = nextId + 1
  /\ AutoSave(planMeta, plan')
  /\ UNCHANGED <<computed, gameData, planMeta>>

updateStation(id, patch) ==
  /\ LET Apply(s) == Patch(s, patch)
     IN  SetPlanAndRecompute([plan EXCEPT !.stations = MapWhereId(@, id, [i \in DOMAIN @ |-> Apply(@[i])])])
  /\ UNCHANGED nextId

removeStation(id) ==
  /\ LET Keep(s) == s.id # id
         KeepConn(c) == c.sourceStationId # id /\ c.targetStationId # id
     IN  SetPlanAndRecompute([plan EXCEPT
                                !.stations = SelectSeq(@, Keep),
                                !.connections = SelectSeq(@, KeepConn)])
  /\ UNCHANGED nextId

moveStationToSector(stationId, sectorId) ==
  /\ LET Apply(s) == [s EXCEPT !.sectorId = sectorId]
     IN  SetPlanAndRecompute([plan EXCEPT !.stations = MapWhereId(@, stationId, [i \in DOMAIN @ |-> Apply(@[i])])])
  /\ UNCHANGED nextId

addModule(stationId, blueprintId) ==
  /\ CanCreate
  /\ LET module == [id |-> nanoid, blueprintId |-> blueprintId, count |-> 1]
         Apply(s) == [s EXCEPT !.modules = Append(@, module)]
     IN  SetPlanAndRecompute([plan EXCEPT !.stations = MapWhereId(@, stationId, [i \in DOMAIN @ |-> Apply(@[i])])])
  /\ nextId' = nextId + 1

\* the locked flag left out of the test
scaledConnectionsIgnoringLock(moduleConnections, moduleId, scaleFactor) ==
  [i \in 1..Len(moduleConnections) |->
     LET conn == moduleConnections[i]
     IN  IF conn.sourceModuleId = moduleId
         THEN [conn EXCEPT !.amount = FMul(conn.amount, scaleFactor)]
         ELSE IF /\ conn.targetModuleId = moduleId
                 /\ conn.sourceModuleId = STATION_INPUT_ID
         THEN [conn EXCEPT !.amount = FMul(conn.amount, scaleFactor)]
         ELSE conn]

\* only the connections leaving the module scaled
scaledConnectionsOutgoingOnly(moduleConnections, moduleId, scaleFactor) ==
  [i \in 1..Len(moduleConnections) |->
     LET conn == moduleConnections[i]
     IN  IF conn.sourceModuleId = moduleId /\ ~conn.locked
         THEN [conn EXCEPT !.amount = FMul(conn.amount, scaleFactor)]
         ELSE conn]

\* the module connections of a station after the count of moduleId changed by
\* scaleFactor: unlocked connections leaving the module, and unlocked Station
\* Input connections entering it, have their stored amount multiplied
scaledConnections(moduleConnections, moduleId, scaleFactor) ==
  [i \in 1..Len(moduleConnections) |->
     LET conn == moduleConnections[i]
     IN  IF conn.sourceModuleId = moduleId /\ ~conn.locked
         THEN [conn EXCEPT !.amount = FMul(conn.amount, scaleFactor)]
         ELSE IF /\ conn.targetModuleId = moduleId
                 /\ conn.sourceModuleId = STATION_INPUT_ID
                 /\ ~conn.locked
         THEN [conn EXCEPT !.amount = FMul(conn.amount, scaleFactor)]
         ELSE conn]

updateModule(stationId, moduleId, patch) ==
  LET station == FindStation(plan.stations, stationId)
      HasModule == station # Null /\ \E i \in DOMAIN station.modules :
                                       station.modules[i].id = moduleId
      oldModule == station.modules[CHOOSE i \in DOMAIN station.modules :
                     /\ station.modules[i].id = moduleId
                     /\ \A j \in 1..(i - 1) : station.modules[j].id # moduleId]
      isCountChanging ==
        "count" \in DOMAIN patch /\ HasModule /\ patch.count # oldModule.count
      scaleFactor == FDiv(Num(patch.count), Num(oldModule.count))
      ApplyModule(m) == Patch(m, patch)
      ApplyStation(s) ==
        [s EXCEPT
           !.modules = MapWhereId(@, moduleId, [i \in DOMAIN @ |-> ApplyModule(@[i])]),
           !.moduleConnections =
             IF isCountChanging
             THEN scaledConnections(station.moduleConnections, moduleId, scaleFactor)
             ELSE @]
  IN  /\ SetPlanAndRecompute([plan EXCEPT
                                !.stations = MapWhereId(@, stationId, [i \in DOMAIN @ |-> ApplyStation(@[i])])])
      /\ UNCHANGED nextId

\* the module removed and its connections left in place
removeModuleKeepingConnections(stationId, moduleId) ==
  /\ LET Keep(m) == m.id # moduleId
         Apply(s) == [s EXCEPT !.modules = SelectSeq(@, Keep)]
     IN  SetPlanAndRecompute([plan EXCEPT !.stations = MapWhereId(@, stationId, [i \in DOMAIN @ |-> Apply(@[i])])])
  /\ UNCHANGED nextId

removeModule(stationId, moduleId) ==
  /\ LET Keep(m) == m.id # moduleId
         KeepConn(c) == c.sourceModuleId # moduleId /\ c.targetModuleId # moduleId
         Apply(s) == [s EXCEPT !.modules = SelectSeq(@, Keep),
                               !.moduleConnections = SelectSeq(@, KeepConn)]
     IN  SetPlanAndRecompute([plan EXCEPT !.stations = MapWhereId(@, stationId, [i \in DOMAIN @ |-> Apply(@[i])])])
  /\ UNCHANGED nextId

addConnection(conn) ==
  /\ CanCreate
  /\ SetPlanAndRecompute([plan EXCEPT !.connections =
                            Append(@, [id |-> nanoid] @@ conn)])
  /\ nextId' = nextId + 1

updateConnection(id, patch) ==
  /\ LET Apply(c) == Patch(c, patch)
     IN  SetPlanAndRecompute([plan EXCEPT !.connections = MapWhereId(@, id, [i \in DOMAIN @ |-> Apply(@[i])])])
  /\ UNCHANGED nextId

removeConnection(id) ==
  /\ LET Keep(c) == c.id # id
     IN  SetPlanAndRecompute([plan EXCEPT !.connections = SelectSeq(@, Keep)])
  /\ UNCHANGED nextId

addModuleConnection(stationId, conn) ==
  /\ CanCreate
  /\ LET Apply(s) ==
           [s EXCEPT !.moduleConnections = Append(@, [id |-> nanoid] @@ conn)]
     IN  SetPlanAndRecompute([plan EXCEPT !.stations = MapWhereId(@, stationId, [i \in DOMAIN @ |-> Apply(@[i])])])
  /\ nextId' = nextId + 1

updateModuleConnection(stationId, connId, patch) ==
  /\ LET ApplyConn(c) == Patch(c, patch)
         Apply(s) == [s EXCEPT !.moduleConnections = MapWhereId(@, connId, [i \in DOMAIN @ |-> ApplyConn(@[i])])]
     IN  SetPlanAndRecompute([plan EXCEPT !.stations = MapWhereId(@, stationId, [i \in DOMAIN @ |-> Apply(@[i])])])
  /\ UNCHANGED nextId

removeModuleConnection(stationId, connId) ==
  /\ LET Keep(c) == c.id # connId
         Apply(s) == [s EXCEPT !.moduleConnections = SelectSeq(@, Keep)]
     IN  SetPlanAndRecompute([plan EXCEPT !.stations = MapWhereId(@, stationId, [i \in DOMAIN @ |-> Apply(@[i])])])
  /\ UNCHANGED nextId

(***************************************************************************)
(* The store driven by the editor                                          *)
(***************************************************************************)
StationIds == {plan.stations[i].id : i \in DOMAIN plan.stations}
StationOf(id) == FindStation(plan.stations, id)
ModuleIds(s) == {StationOf(s).modules[i].id : i \in DOMAIN StationOf(s).modules}
ModuleConnectionIds(s) ==
  {StationOf(s).moduleConnections[i].id : i \in DOMAIN StationOf(s).moduleConnections}
ConnectionIds == {plan.connections[i].id : i \in DOMAIN plan.connections}

\* what the editor offers for a new module connection of station s: any
\* module or Station Input as source, any module or Station Output as target,
\* created unlocked in auto mode
ModuleConnectionInputs(s) ==
  {[sourceModuleId |-> src, targetModuleId |-> tgt, wareId |-> w,
    amount |-> a, mode |-> "auto", locked |-> FALSE] :
     src \in ModuleIds(s) \cup {STATION_INPUT_ID},
     tgt \in ModuleIds(s) \cup {STATION_OUTPUT_ID},
     w \in StoreWares, a \in StoreAmounts}

ModuleConnectionPatches ==
  {[locked |-> TRUE], [mode |-> "custom"]}

ConnectionInputs ==
  {[sourceStationId |-> src, targetStationId |-> tgt, wareId |-> w,
    amount |-> a, mode |-> "auto"] :
     src \in StationIds, tgt \in StationIds, w \in StoreWares, a \in StoreAmounts}

ConnectionPatches == {[mode |-> "custom"]}

Init ==
  /\ plan = createEmptyPlan
  /\ computed = createEmptyComputed
  /\ gameData = Null
  /\ nextId = 1
  /\ ManagerOpenOn(plan)

\* the editor is rendered, and its operations can be called, once the catalog
\* is loaded (App.tsx shows the loading screen until then)
Next ==
  \/ setGameData
  \/ /\ gameData # Null
     /\ \/ recompute
        \/ createPlan
        \/ addStation
        \/ \E s \in StationIds : updateStation(s, [fillHabitats |-> TRUE])
        \/ \E s \in StationIds : removeStation(s)
        \/ \E s \in StationIds : moveStationToSector(s, Null)
        \/ \E s \in StationIds : \E b \in StoreBlueprints : addModule(s, b)
        \/ \E s \in StationIds : \E m \in ModuleIds(s) : \E c \in 1..MaxCount :
             updateModule(s, m, [count |-> c])
        \/ \E s \in StationIds : \E m \in ModuleIds(s) : removeModule(s, m)
        \/ \E conn \in ConnectionInputs : addConnection(conn)
        \/ \E c \in ConnectionIds : \E patch \in ConnectionPatches :
             updateConnection(c, patch)
        \/ \E c \in ConnectionIds : removeConnection(c)
        \/ \E s \in StationIds : \E conn \in ModuleConnectionInputs(s) :
             addModuleConnection(s, conn)
        \/ \E s \in StationIds : \E c \in ModuleConnectionIds(s) :
             \E patch \in ModuleConnectionPatches : updateModuleConnection(s, c, patch)
        \/ \E s \in StationIds : \E c \in ModuleConnectionIds(s) :
             removeModuleConnection(s, c)

Spec == Init /\ [][Next]_vars

\* records of the topology
Module(id, blueprintId, count) ==
  [id |-> id, blueprintId |-> blueprintId, count |-> count]

ModuleConnection(id, source, target, wareId, flow) ==
  [id |-> id, sourceModuleId |-> source, targetModuleId |-> target,
   wareId |-> wareId, amount |-> flow[2], mode |-> flow[1], locked |-> Undefined]

Connection(id, source, target, wareId, flow) ==
  [id |-> id, sourceStationId |-> source, targetStationId |-> target,
   wareId |-> wareId, amount |-> flow[2], mode |-> flow[1]]

Station(id, modules, moduleConnections) ==
  [id |-> id, sectorId |-> Null, sunlightOverride |-> Null, fillHabitats |-> FALSE,
   modules |-> modules, moduleConnections |-> moduleConnections]

(***************************************************************************)
(* Module counts edited on a station with connections                      *)
(***************************************************************************)
ScaleEndpoints ==
  {<<"m1", "m2">>, <<"m1", STATION_OUTPUT_ID>>,
   <<STATION_INPUT_ID, "m2">>, <<STATION_INPUT_ID, STATION_OUTPUT_ID>>}

\* the first connection of a station, and an optional second one
ScaleConnections(mode) ==
  {<<[id |-> "k1", sourceModuleId |-> e1[1], targetModuleId |-> e1[2], wareId |-> "ore",
      amount |-> Num(100), mode |-> mode, locked |-> l1]>>
   \o (IF e2 = <<>> THEN <<>>
       ELSE <<[id |-> "k2", sourceModuleId |-> e2[1], targetModuleId |-> e2[2],
               wareId |-> "ore", amount |-> Num(100), mode |-> mode, locked |-> l2]>>) :
     e1 \in ScaleEndpoints, l1 \in BOOLEAN,
     e2 \in ScaleEndpoints \cup {<<>>}, l2 \in BOOLEAN}

\* a station with a miner and a refinery at any counts, its connections stored
\* at 100 each, locked or not
ScalePlans ==
  {[sectors |-> <<>>,
    stations |-> <<Station("sA",
                           <<Module("m1", "prod_gen_ore", c[1]),
                             Module("m2", "prod_gen_refinedmetals", c[2])>>,
                           conns)>>,
    connections |-> <<>>] :
     c \in (1..MaxCount) \X (1..MaxCount),
     conns \in ScaleConnections("auto") \cup ScaleConnections("custom")}

\* the editor open on one of these plans
InitScale ==
  /\ plan \in ScalePlans
  /\ computed = computeNetwork(plan, Catalog)
  /\ gameData = Catalog
  /\ nextId = 1
  /\ ManagerOpenOn(plan)

NextScale ==
  \E s \in StationIds : \E m \in ModuleIds(s) : \E c \in 1..MaxCount :
    updateModule(s, m, [count |-> c])

SpecScale == InitScale /\ [][NextScale]_vars

(***************************************************************************)
(* The engine on imported topologies: loadPlan(p) for p in EnginePlans     *)
(***************************************************************************)
\* <<mode, stored amount>> of a connection; the mode may be missing
Flows ==
  {<<"auto", Num(100)>>, <<"max", Num(100)>>, <<Undefined, Num(100)>>,
   <<"custom", Num(40)>>, <<"custom", Num(100)>>, <<"custom", Num(300)>>,
   <<"custom", Num(-40)>>}

BoundaryFlows ==
  {<<"auto", Num(100)>>, <<"custom", Num(100)>>, <<"custom", Num(300)>>}

\* one station: a miner feeding two refineries over two internal connections
\* that share the source, or the source and the target
InternalPlans ==
  {[sectors |-> <<>>,
    stations |-> <<
      Station("sA",
              <<Module("mA", "prod_gen_ore", c[1]),
                Module("r1", "prod_gen_refinedmetals", c[2]),
                Module("r2", "prod_gen_refinedmetals", 1)>>,
              <<ModuleConnection("k1", "mA", "r1", "ore", f1),
                ModuleConnection("k2", "mA", second, "ore", f2)>>)>>,
    connections |-> <<>>] :
     c \in {1, 5} \X {1, 2}, second \in {"r1", "r2"}, f1 \in Flows, f2 \in Flows}

\* a consumer sA whose refineries draw ore through Station Input, a supplier
\* sB whose miner exports through Station Output, and connections sB -> sA
NetworkPlans ==
  {[sectors |-> <<>>,
    stations |-> <<
      Station("sA",
              <<Module("r1", "prod_gen_refinedmetals", 1),
                Module("r2", "prod_gen_refinedmetals", 3)>>,
              <<ModuleConnection("k1", STATION_INPUT_ID, "r1", "ore", g1)>>
              \o (IF two[1] THEN <<ModuleConnection("k2", STATION_INPUT_ID, "r2", "ore", g2)>>
                  ELSE <<>>)),
      Station("sB",
              <<Module("mB", "prod_gen_ore", b)>>,
              <<ModuleConnection("k3", "mB", STATION_OUTPUT_ID, "ore", h)>>)>>,
    connections |->
      <<Connection("c1", "sB", "sA", "ore", f1)>>
      \o (IF two[2] THEN <<Connection("c2", "sB", "sA", "ore", f2)>> ELSE <<>>)] :
     g1 \in BoundaryFlows, g2 \in BoundaryFlows, two \in BOOLEAN \X BOOLEAN,
     b \in {1, 4}, h \in {<<"auto", Num(100)>>, <<"custom", Num(200)>>},
     f1 \in Flows, f2 \in Flows}

EnginePlans == InternalPlans \cup NetworkPlans

\* App start: initializePlanManager has loaded the saved plan while the
\* catalog is still loading; setGameData then evaluates it
InitEngine ==
  /\ plan \in {migratedPlan(p) : p \in EnginePlans}
  /\ computed = createEmptyComputed
  /\ gameData = Null
  /\ nextId = 1
  /\ ManagerOpenOn(plan)

NextEngine == setGameData

SpecEngine == InitEngine /\ [][NextEngine]_vars

(***************************************************************************)
(* Properties of the connection loops                                      *)
(***************************************************************************)
\* the catalog is loaded and computed holds an evaluation
Evaluated == gameData # Null /\ Len(computed.stations) = Len(plan.stations)

StationIndexes == 1..Len(plan.stations)

ModuleToModule(s) == moduleToModuleConnections(plan.stations[s].moduleConnections)

\* the record the evaluation holds for a connection
ModuleConnectionRecord(s, id) == FindComputed(computed.stations[s].moduleConnections, id)
ConnectionRecord(id) == FindComputed(computed.connections, id)

\* seed - e1 - e2 - ... in the order of the list
RECURSIVE Drain(_, _)
Drain(seed, amounts) ==
  IF amounts = <<>> THEN seed ELSE Drain(FSub(seed, Head(amounts)), Tail(amounts))

\* 0 + e1 + e2 + ... in the order of the list
RECURSIVE Total(_, _)
Total(sum, amounts) ==
  IF amounts = <<>> THEN sum ELSE Total(FAdd(sum, Head(amounts)), Tail(amounts))

\* the indexes j < i of list whose element passes Test, ascending
EarlierIndexes(i, Test(_)) == SelectSeq([j \in 1..(i - 1) |-> j], Test)

ModuleGross(s, moduleId, outputs) ==
  LET k == FindModuleIndex(computed.stations[s].modules, moduleId, 1)
  IN  IF k = 0 THEN <<>>
      ELSE IF outputs THEN computed.stations[s].modules[k].grossOutputs
      ELSE computed.stations[s].modules[k].grossInputs

\* what the source module of the i-th module-to-module connection of station
\* s has left of the ware when the connection is processed
ModuleSourceRemaining(s, i) ==
  LET conns == ModuleToModule(s)
      Same(j) == /\ conns[j].sourceModuleId = conns[i].sourceModuleId
                 /\ conns[j].wareId = conns[i].wareId
      earlier == EarlierIndexes(i, Same)
  IN  Drain(MapGet(ModuleGross(s, conns[i].sourceModuleId, TRUE), conns[i].wareId),
            [k \in 1..Len(earlier) |->
               ModuleConnectionRecord(s, conns[earlier[k]].id).effectiveAmount])

\* what the target module still needs of the ware at that moment
ModuleTargetRemaining(s, i) ==
  LET conns == ModuleToModule(s)
      Same(j) == /\ conns[j].targetModuleId = conns[i].targetModuleId
                 /\ conns[j].wareId = conns[i].wareId
      earlier == EarlierIndexes(i, Same)
  IN  Drain(MapGet(ModuleGross(s, conns[i].targetModuleId, FALSE), conns[i].wareId),
            [k \in 1..Len(earlier) |->
               ModuleConnectionRecord(s, conns[earlier[k]].id).effectiveAmount])

StationRecord(stationId) ==
  LET k == CHOOSE k \in 0..Len(computed.stations) :
             \/ k > 0 /\ computed.stations[k].stationId = stationId
             \/ k = 0 /\ \A j \in 1..Len(computed.stations) :
                           computed.stations[j].stationId # stationId
  IN  IF k = 0 THEN Null ELSE computed.stations[k]

\* what a station offers of a ware before any inter-station connection:
\* its Station Output amount, capped by its net output of the ware
StationOffer(stationId, wareId) ==
  LET sc == StationRecord(stationId)
      out == MapGet(sc.stationOutputs, wareId)
  IN  IF sc = Null THEN Zero
      ELSE IF IndexOfWare(sc.stationOutputs, wareId) = 0 THEN Zero
      ELSE IF IndexOfWare(sc.netOutputs, wareId) = 0 THEN out
      ELSE Min(out, MapGet(sc.netOutputs, wareId))

\* what a station requests of a ware through Station Input
StationRequest(stationId, wareId) ==
  LET sc == StationRecord(stationId)
  IN  IF sc = Null THEN Zero ELSE MapGet(sc.stationInputs, wareId)

SourceRemaining(i) ==
  LET conns == plan.connections
      Same(j) == /\ conns[j].sourceStationId = conns[i].sourceStationId
                 /\ conns[j].wareId = conns[i].wareId
      earlier == EarlierIndexes(i, Same)
  IN  Drain(StationOffer(conns[i].sourceStationId, conns[i].wareId),
            [k \in 1..Len(earlier) |-> ConnectionRecord(conns[earlier[k]].id).effectiveAmount])

TargetRemaining(i) ==
  LET conns == plan.connections
      Same(j) == /\ conns[j].targetStationId = conns[i].targetStationId
                 /\ conns[j].wareId = conns[i].wareId
      earlier == EarlierIndexes(i, Same)
  IN  Drain(StationRequest(conns[i].targetStationId, conns[i].wareId),
            [k \in 1..Len(earlier) |-> ConnectionRecord(conns[earlier[k]].id).effectiveAmount])

UncappedMode(conn) == conn.mode \in {"auto", "max", Undefined}

\* the record of an auto, max or unset connection against its two limits
UncappedRecord(cc, source, target) ==
  /\ cc.effectiveAmount = Min(source, target)
  /\ cc.sourceConstrained <=> Lt(source, target)
  /\ cc.targetConstrained <=> Lt(target, source)

\* the record of a custom connection against its stored amount and limits
CustomRecord(cc, stored, source, target) ==
  /\ cc.effectiveAmount = Min3(stored, source, target)
  /\ cc.sourceConstrained <=> Gt(stored, source)
  /\ cc.targetConstrained <=> Gt(stored, target)

\* C1: every module-to-module and every inter-station connection in mode
\* auto, max or unset carries min(sourceRemaining, targetRemaining) of its
\* ware as effectiveAmount, where the remainders are those left by the
\* connections processed before it; sourceConstrained holds iff
\* sourceRemaining < targetRemaining and targetConstrained iff the reverse.
C1_UncappedModes ==
  Evaluated =>
    /\ \A s \in StationIndexes : \A i \in 1..Len(ModuleToModule(s)) :
         UncappedMode(ModuleToModule(s)[i]) =>
           UncappedRecord(ModuleConnectionRecord(s, ModuleToModule(s)[i].id),
                          ModuleSourceRemaining(s, i), ModuleTargetRemaining(s, i))
    /\ \A i \in 1..Len(plan.connections) :
         UncappedMode(plan.connections[i]) =>
           UncappedRecord(ConnectionRecord(plan.connections[i].id),
                          SourceRemaining(i), TargetRemaining(i))

\* an unset-mode module connection behind an earlier one that left the source
\* short, and a max-mode inter-station connection limited by its target
C1_Witness ==
  /\ Evaluated
  /\ \E s \in StationIndexes : \E i \in 2..Len(ModuleToModule(s)) :
       LET conn == ModuleToModule(s)[i]
           cc == ModuleConnectionRecord(s, conn.id)
       IN  /\ conn.mode = Undefined
           /\ cc.sourceConstrained /\ ~cc.targetConstrained
           /\ Gt(cc.effectiveAmount, Zero)
           /\ Lt(ModuleSourceRemaining(s, i),
                 MapGet(ModuleGross(s, conn.sourceModuleId, TRUE), conn.wareId))

\* C2: every module-to-module and every inter-station connection in mode
\* custom carries min(stored amount, sourceRemaining, targetRemaining) as
\* effectiveAmount; sourceConstrained holds iff the stored amount exceeds
\* sourceRemaining, targetConstrained iff it exceeds targetRemaining.
C2_CustomClamp ==
  Evaluated =>
    /\ \A s \in StationIndexes : \A i \in 1..Len(ModuleToModule(s)) :
         ModuleToModule(s)[i].mode = "custom" =>
           CustomRecord(ModuleConnectionRecord(s, ModuleToModule(s)[i].id),
                        ModuleToModule(s)[i].amount,
                        ModuleSourceRemaining(s, i), ModuleTargetRemaining(s, i))
    /\ \A i \in 1..Len(plan.connections) :
         plan.connections[i].mode = "custom" =>
           CustomRecord(ConnectionRecord(plan.connections[i].id),
                        plan.connections[i].amount,
                        SourceRemaining(i), TargetRemaining(i))

\* a custom inter-station connection, second in the list, whose stored amount
\* exceeds both what the source has left and what the target still needs
C2_Witness ==
  /\ Evaluated
  /\ \E i \in 2..Len(plan.connections) :
       LET conn == plan.connections[i]
           cc == ConnectionRecord(conn.id)
       IN  /\ conn.mode = "custom"
           /\ cc.sourceConstrained /\ cc.targetConstrained
           /\ Gt(cc.effectiveAmount, Zero)
           /\ Lt(cc.effectiveAmount, conn.amount)
           /\ Gt(ConnectionRecord(plan.connections[1].id).effectiveAmount, Zero)

(***************************************************************************)
(* Properties of deficits, the cascade and the net amounts                 *)
(***************************************************************************)
Wares == {"ore", "refinedmetals", "energycells", FOOD_WARE_ID, MEDICAL_WARE_ID}

\* the total the inter-station connections deliver to a station for a ware:
\* their effective amounts added up in list order
Supplied(stationId, wareId) ==
  LET conns == plan.connections
      To(j) == conns[j].targetStationId = stationId /\ conns[j].wareId = wareId
      into == EarlierIndexes(Len(conns) + 1, To)
  IN  Total(Zero, [k \in 1..Len(into) |-> ConnectionRecord(conns[into[k]].id).effectiveAmount])

DeficitsFor(stationId, wareId) ==
  {i \in 1..Len(computed.deficits) :
     /\ computed.deficits[i].stationId = stationId
     /\ computed.deficits[i].wareId = wareId}

\* the station is wired for 100 ore/hr through Station Input and its only
\* supply is one auto connection that delivers 60
DeficitScenario(s) ==
  /\ computed.stations[s].stationInputs = <<RA("ore", Num(100))>>
  /\ \A o \in StationIndexes \ {s} : computed.stations[o].stationInputs = <<>>
  /\ Len(plan.connections) = 1
  /\ plan.connections[1].mode = "auto"
  /\ plan.connections[1].targetStationId = computed.stations[s].stationId
  /\ plan.connections[1].wareId = "ore"
  /\ computed.connections[1].effectiveAmount = Num(60)

\* C3: a deficit is recorded for (station, ware) exactly when the ware is in
\* the station's stationInputs with amount A and the total S delivered by
\* inter-station connections satisfies S < A - 0.01; the record carries
\* required = A, supplied = S, deficit = A - S.  A station wired for 100
\* ore/hr and supplied 60 by one auto connection yields the single deficit
\* {required 100, supplied 60, deficit 40}.
C3_Deficits ==
  Evaluated =>
    /\ \A s \in StationIndexes : \A w \in Wares :
         LET sc == computed.stations[s]
             A == MapGet(sc.stationInputs, w)
             S == Supplied(sc.stationId, w)
             short == IndexOfWare(sc.stationInputs, w) # 0 /\ Lt(S, FSub(A, Epsilon))
             found == DeficitsFor(sc.stationId, w)
         IN  /\ Cardinality(found) = IF short THEN 1 ELSE 0
             /\ \A i \in found :
                  /\ computed.deficits[i].required = A
                  /\ computed.deficits[i].supplied = S
                  /\ computed.deficits[i].deficit = FSub(A, S)
    /\ \A s \in StationIndexes :
         DeficitScenario(s) =>
           computed.deficits =
             <<[wareId |-> "ore", stationId |-> computed.stations[s].stationId,
                required |-> Num(100), supplied |-> Num(60), deficit |-> Num(40)]>>

\* the 100 / 60 scenario evaluated, with its single deficit of 40
C3_Witness ==
  /\ Evaluated
  /\ \E s \in StationIndexes : DeficitScenario(s)
  /\ Len(computed.deficits) = 1
  /\ computed.deficits[1].deficit = Num(40)

StationInputsFor(s, wareId) ==
  LET Matches(c) == c.sourceModuleId = STATION_INPUT_ID /\ c.wareId = wareId
  IN  SelectSeq(plan.stations[s].moduleConnections, Matches)

StoredAmounts(conns) == [k \in 1..Len(conns) |-> conns[k].amount]

\* min(S / T, 1)
SupplyRatio(s, wareId) ==
  Min(FDiv(Supplied(plan.stations[s].id, wareId),
           Total(Zero, StoredAmounts(StationInputsFor(s, wareId)))),
      One)

\* the cascade applies to the ware at this station
Cascades(s, wareId) ==
  /\ Ge(Supplied(plan.stations[s].id, wareId), Epsilon)
  /\ Len(StationInputsFor(s, wareId)) > 0
  /\ Ge(Total(Zero, StoredAmounts(StationInputsFor(s, wareId))), Epsilon)

Removed == "removed"

\* v less the reductions one after the other; removed once not above 0.01
RECURSIVE Reduced(_, _)
Reduced(v, reductions) ==
  IF reductions = <<>> THEN v
  ELSE LET n == FSub(v, Head(reductions))
       IN  IF Gt(n, Epsilon) THEN Reduced(n, Tail(reductions)) ELSE Removed

\* the station-level result for station s, before the network cascade
StationLevel(s) == computeStation(plan.stations[s], plan.sectors, gameData)

RECURSIVE ModuleRecord(_, _)
ModuleRecord(modules, moduleId) ==
  IF Head(modules).moduleId = moduleId THEN Head(modules)
  ELSE ModuleRecord(Tail(modules), moduleId)

\* the station-level netInputs of the k-th module of station s
StationLevelNetInputs(s, k) ==
  ModuleRecord(StationLevel(s).modules, computed.stations[s].modules[k].moduleId).netInputs

\* the a_i * min(S/T, 1) of the Station Input connections into module m
ReductionsInto(s, m, wareId) ==
  LET Into(c) == c.targetModuleId = m
      conns == SelectSeq(StationInputsFor(s, wareId), Into)
  IN  [k \in 1..Len(conns) |-> FMul(conns[k].amount, SupplyRatio(s, wareId))]

\* stored amounts 100 and 300 into two modules, external supply 200
CascadeScenario(s) ==
  /\ Len(StationInputsFor(s, "ore")) = 2
  /\ StoredAmounts(StationInputsFor(s, "ore")) = <<Num(100), Num(300)>>
  /\ StationInputsFor(s, "ore")[1].targetModuleId # StationInputsFor(s, "ore")[2].targetModuleId
  /\ Supplied(plan.stations[s].id, "ore") = Num(200)

\* C4: where a station is supplied S >= 0.01 of a ware and its Station Input
\* connections for the ware store amounts a_i with sum T >= 0.01, each
\* target module's netInputs entry for the ware is its station-level value
\* less a_i * min(S/T, 1) per connection, and is absent when that is not
\* above 0.01; with stored 100 and 300 and S = 200 the reductions are 50
\* and 150.
C4_CascadeProportional ==
  Evaluated =>
    \A s \in StationIndexes :
      /\ \A w \in Wares : \A k \in 1..Len(computed.stations[s].modules) :
           LET final == computed.stations[s].modules[k].netInputs
               base == StationLevelNetInputs(s, k)
               expected ==
                 Reduced(MapGet(base, w),
                         ReductionsInto(s, computed.stations[s].modules[k].moduleId, w))
           IN  (Cascades(s, w) /\ IndexOfWare(base, w) # 0) =>
                 IF expected = Removed THEN IndexOfWare(final, w) = 0
                 ELSE IndexOfWare(final, w) # 0 /\ MapGet(final, w) = expected
      /\ CascadeScenario(s) =>
           \A j \in 1..2 :
             LET m == StationInputsFor(s, "ore")[j].targetModuleId
                 k == FindModuleIndex(computed.stations[s].modules, m, 1)
             IN  MapGet(computed.stations[s].modules[k].netInputs, "ore") =
                   FSub(MapGet(StationLevelNetInputs(s, k), "ore"),
                        IF j = 1 THEN Num(50) ELSE Num(150))

\* the 100 / 300 / 200 scenario evaluated: the modules are left with net
\* inputs of 50 and 150 ore
C4_Witness ==
  /\ Evaluated
  /\ \E s \in StationIndexes :
       /\ CascadeScenario(s)
       /\ Cascades(s, "ore")
       /\ MapGet(computed.stations[s].modules[1].netInputs, "ore") = Num(50)
       /\ MapGet(computed.stations[s].modules[2].netInputs, "ore") = Num(150)

Ids_(list) == [k \in 1..Len(list) |-> list[k].id]

\* station s with the module-to-module connections behind list position p
\* taken out
StationUpTo(s, p) ==
  LET conns == plan.stations[s].moduleConnections
      Keep(j) == j <= p \/ ~IsModuleToModule(conns[j])
      kept == SelectSeq([j \in 1..Len(conns) |-> j], Keep)
  IN  [plan.stations[s] EXCEPT !.moduleConnections = [k \in 1..Len(kept) |-> conns[kept[k]]]]

\* C5: connections are resolved in list order.  The record of a module-to-
\* module or inter-station connection is the one it gets when every
\* connection behind it in the list is taken out of the topology, so an
\* earlier connection is never reduced on account of a later one; and the
\* records come out in list order (per station: module-to-module, Station
\* Input, Station Output), with no sorting.
C5_ListOrder ==
  Evaluated =>
    /\ \A p \in 1..Len(plan.connections) :
         computed.connections[p] =
           FindComputed(computeNetwork([plan EXCEPT !.connections = SubSeq(@, 1, p)],
                                       gameData).connections,
                        plan.connections[p].id)
    /\ [k \in 1..Len(computed.connections) |-> computed.connections[k].connectionId]
         = Ids_(plan.connections)
    /\ \A s \in StationIndexes :
         LET conns == plan.stations[s].moduleConnections
             records == computed.stations[s].moduleConnections
         IN  /\ \A p \in 1..Len(conns) :
                  IsModuleToModule(conns[p]) =>
                    FindComputed(records, conns[p].id) =
                      FindComputed(computeStation(StationUpTo(s, p), plan.sectors,
                                                  gameData).moduleConnections,
                                   conns[p].id)
             /\ [k \in 1..Len(records) |-> records[k].connectionId]
                  = Ids_(moduleToModuleConnections(conns))
                      \o Ids_(stationInputConnections(conns))
                      \o Ids_(stationOutputConnections(conns))

\* two inter-station connections draw ore from the same station under
\* scarcity: the first, with the smaller stored amount, is served in full
\* and the second gets less than it would get alone
C5_Witness ==
  /\ Evaluated
  /\ Len(plan.connections) = 2
  /\ plan.connections[1].sourceStationId = plan.connections[2].sourceStationId
  /\ plan.connections[1].mode = "custom" /\ plan.connections[2].mode = "custom"
  /\ Lt(plan.connections[1].amount, plan.connections[2].amount)
  /\ computed.connections[1].effectiveAmount = plan.connections[1].amount
  /\ Gt(computed.connections[1].effectiveAmount, Zero)
  /\ computed.connections[2].sourceConstrained
  /\ Lt(computed.connections[2].effectiveAmount,
        FindComputed(computeNetwork([plan EXCEPT !.connections = <<plan.connections[2]>>],
                                    gameData).connections,
                     plan.connections[2].id).effectiveAmount)

AllAbove(list) == \A i \in 1..Len(list) : Gt(list[i].amount, Epsilon)

NetAbove(sc) ==
  /\ AllAbove(sc.netInputs) /\ AllAbove(sc.netOutputs)
  /\ \A k \in 1..Len(sc.modules) :
       AllAbove(sc.modules[k].netInputs) /\ AllAbove(sc.modules[k].netOutputs)

\* C6: every entry of every module's and every station's netInputs and
\* netOutputs is above 0.01, in the station-level results and in the result
\* of the network evaluation after the cascade.
C6_NetAboveEpsilon ==
  Evaluated =>
    \A s \in StationIndexes : NetAbove(StationLevel(s)) /\ NetAbove(computed.stations[s])

\* the cascade took a module's net input of a ware down to nothing, and the
\* entry is gone from the result
C6_Witness ==
  /\ Evaluated
  /\ \E s \in StationIndexes : \E k \in 1..Len(computed.stations[s].modules) :
       /\ IndexOfWare(StationLevelNetInputs(s, k), "ore") # 0
       /\ IndexOfWare(computed.stations[s].modules[k].netInputs, "ore") = 0
       /\ Reduced(MapGet(StationLevelNetInputs(s, k), "ore"),
                  ReductionsInto(s, computed.stations[s].modules[k].moduleId, "ore"))
            = Removed

AtMost(net, gross) ==
  \A i \in 1..Len(net) : Le(net[i].amount, MapGet(gross, net[i].wareId))

\* C7: for every module of the result and every ware, the netInputs amount
\* is at most the grossInputs amount and the netOutputs amount is at most
\* the grossOutputs amount, whatever the modes, stored amounts and order.
C7_NetAtMostGross ==
  Evaluated =>
    \A s \in StationIndexes : \A k \in 1..Len(computed.stations[s].modules) :
      LET mc == computed.stations[s].modules[k]
      IN  AtMost(mc.netInputs, mc.grossInputs) /\ AtMost(mc.netOutputs, mc.grossOutputs)

(***************************************************************************)
(* Properties of the store                                                 *)
(***************************************************************************)
\* C8: with the catalog loaded, after every mutating store operation the
\* store's computed is the evaluation of the current plan; in particular it
\* has one entry per station of the plan.
C8_ComputedFollowsPlan ==
  gameData # Null =>
    /\ computed = computeNetwork(plan, gameData)
    /\ Len(computed.stations) = Len(plan.stations)

\* the step keeps the stations, modules and module connections in place and
\* changes the count of module k of station i
CountChanges(i, k) ==
  /\ Len(plan'.stations) = Len(plan.stations)
  /\ Ids_(plan'.stations[i].modules) = Ids_(plan.stations[i].modules)
  /\ Ids_(plan'.stations[i].moduleConnections) = Ids_(plan.stations[i].moduleConnections)
  /\ plan'.stations[i].modules[k].count # plan.stations[i].modules[k].count

ModulePlaces ==
  {<<i, k>> \in (1..MaxStations) \X (1..MaxIds) :
     i \in DOMAIN plan.stations /\ k \in DOMAIN plan.stations[i].modules}

\* C9: a step of updateModule that changes a module's count leaves every
\* module connection flagged locked as it was, amount included, whatever its
\* endpoints and mode.
C9_LockedKept ==
  [][\A place \in ModulePlaces :
       CountChanges(place[1], place[2]) =>
         \A j \in DOMAIN plan.stations[place[1]].moduleConnections :
           plan.stations[place[1]].moduleConnections[j].locked =>
             plan'.stations[place[1]].moduleConnections[j] =
               plan.stations[place[1]].moduleConnections[j]]_vars

\* a locked connection leaving a module still at its stored 100 beside an
\* unlocked one leaving the same module that a count change has scaled
C9_Witness ==
  \E i \in DOMAIN plan.stations :
    \E j, k \in DOMAIN plan.stations[i].moduleConnections :
      LET held == plan.stations[i].moduleConnections[j]
          free == plan.stations[i].moduleConnections[k]
      IN  /\ held.locked /\ ~free.locked
          /\ held.sourceModuleId = free.sourceModuleId
          /\ held.sourceModuleId # STATION_INPUT_ID
          /\ held.amount = Num(100)
          /\ free.amount # Num(100)

\* the connection is one a count change of moduleId scales
Scales(conn, moduleId) ==
  /\ ~conn.locked
  /\ \/ conn.sourceModuleId = moduleId
     \/ conn.targetModuleId = moduleId /\ conn.sourceModuleId = STATION_INPUT_ID

\* every connection the count change of module k of station i scales has its
\* amount multiplied by c' / c
Multiplied(i, k) ==
  LET old == plan.stations[i].modules[k]
      factor == FDiv(Num(plan'.stations[i].modules[k].count), Num(old.count))
  IN  \A j \in DOMAIN plan.stations[i].moduleConnections :
        LET conn == plan.stations[i].moduleConnections[j]
        IN  Scales(conn, old.id) =>
              plan'.stations[i].moduleConnections[j].amount = FMul(conn.amount, factor)

\* the module connections of station i after the count of module k is changed
\* back, as updateModule then computes them
ChangedBack(i, k) ==
  scaledConnections(plan'.stations[i].moduleConnections,
                    plan.stations[i].modules[k].id,
                    FDiv(Num(plan.stations[i].modules[k].count),
                         Num(plan'.stations[i].modules[k].count)))

Near(a, b) ==
  LET diff == Rat(a[1] * b[2] - b[1] * a[2], a[2] * b[2])
  IN  Le(<<Abs(diff[1]) * MantissaLimit, diff[2]>>, <<8 * Abs(b[1]), b[2]>>)

ModuleIdsOf(station) == {station.modules[i].id : i \in DOMAIN station.modules}

\* C11: the plan never holds a connection that references a deleted station
\* or module: every inter-station connection joins two stations of the plan
\* and every module connection joins modules of its station (or the Station
\* Input / Station Output nodes), after removeStation and removeModule too.
C11_NoDanglingConnections ==
  /\ \A i \in DOMAIN plan.connections :
       /\ plan.connections[i].sourceStationId \in StationIds
       /\ plan.connections[i].targetStationId \in StationIds
  /\ \A s \in DOMAIN plan.stations :
       \A j \in DOMAIN plan.stations[s].moduleConnections :
         LET conn == plan.stations[s].moduleConnections[j]
         IN  /\ conn.sourceModuleId \in
                  ModuleIdsOf(plan.stations[s]) \cup {STATION_INPUT_ID}
             /\ conn.targetModuleId \in
                  ModuleIdsOf(plan.stations[s]) \cup {STATION_OUTPUT_ID}

\* three identifiers were handed out and only the second station is left:
\* the first station and the connection created after it are gone
C11_Witness ==
  /\ nextId = 4
  /\ Len(plan.stations) = 1
  /\ plan.stations[1].id = "n2"
  /\ plan.connections = <<>>

(***************************************************************************)
(* The engine on topologies with connections to entities that are gone     *)
(***************************************************************************)
DanglingFlows ==
  {<<"auto", Num(100)>>, <<"max", Num(100)>>,
   <<"custom", Num(40)>>, <<"custom", Num(300)>>}

\* a supplier sA (miner and refinery) and a consumer sB (refinery); one
\* module connection per loop and one inter-station connection may name the
\* module "mX" or the station "sX", which the plan does not hold
DanglingPlans ==
  {[sectors |-> <<>>,
    stations |-> <<
      Station("sA",
              <<Module("mA", "prod_gen_ore", 4),
                Module("r1", "prod_gen_refinedmetals", 1)>>,
              <<ModuleConnection("k1", out, STATION_OUTPUT_ID, "ore",
                                 <<"auto", Num(100)>>),
                ModuleConnection("k2", internal[1], internal[2], "ore", f)>>),
      Station("sB",
              <<Module("r2", "prod_gen_refinedmetals", 2)>>,
              <<ModuleConnection("k3", STATION_INPUT_ID, into, "ore", g),
                ModuleConnection("k4", STATION_INPUT_ID, "r2", "ore",
                                 <<"auto", Num(100)>>)>>)>>,
    connections |->
      IF first
      THEN <<Connection("c1", between[1], between[2], "ore", h),
             Connection("c2", "sA", "sB", "ore", <<"auto", Num(100)>>)>>
      ELSE <<Connection("c2", "sA", "sB", "ore", <<"auto", Num(100)>>),
             Connection("c1", between[1], between[2], "ore", h)>>] :
     out \in {"mA", "mX"}, internal \in {"mA", "mX"} \X {"r1", "mX"},
     into \in {"r2", "mX"}, between \in {"sA", "sX"} \X {"sB", "sX"},
     f \in DanglingFlows, g \in DanglingFlows, h \in DanglingFlows,
     first \in BOOLEAN}

InitDangling ==
  /\ plan \in {migratedPlan(p) : p \in DanglingPlans}
  /\ computed = createEmptyComputed
  /\ gameData = Null
  /\ nextId = 1
  /\ ManagerOpenOn(plan)

NextDangling == setGameData

SpecDangling == InitDangling /\ [][NextDangling]_vars

IsDanglingConnection(p, conn) ==
  \/ conn.sourceStationId \notin {p.stations[i].id : i \in DOMAIN p.stations}
  \/ conn.targetStationId \notin {p.stations[i].id : i \in DOMAIN p.stations}

IsDanglingModuleConnection(station, conn) ==
  \/ conn.sourceModuleId \notin ModuleIdsOf(station) \cup {STATION_INPUT_ID}
  \/ conn.targetModuleId \notin ModuleIdsOf(station) \cup {STATION_OUTPUT_ID}

\* the plan with the connections to missing stations and modules taken out
PrunedStation(station) ==
  LET Keep(c) == ~IsDanglingModuleConnection(station, c)
  IN  [station EXCEPT !.moduleConnections = SelectSeq(@, Keep)]

PrunedPlan(p) ==
  LET Keep(c) == ~IsDanglingConnection(p, c)
  IN  [p EXCEPT !.stations = [i \in DOMAIN p.stations |-> PrunedStation(p.stations[i])],
                !.connections = SelectSeq(@, Keep)]

\* two lists of StationComputed agree on what connections supplied and took,
\* at the station boundary and inside the station
SameSupply(with, without) ==
  /\ Len(with) = Len(without)
  /\ \A i \in 1..Len(with) :
       /\ with[i].externallySupplied = without[i].externallySupplied
       /\ with[i].externallyConsumed = without[i].externallyConsumed
       /\ with[i].stationInputs = without[i].stationInputs
       /\ with[i].stationOutputs = without[i].stationOutputs
       /\ with[i].remainingInputs = without[i].remainingInputs
       /\ with[i].remainingOutputs = without[i].remainingOutputs

SameModules(with, without) == with.modules = without.modules

\* C12: a connection that names a station or a module the plan does not hold
\* is recorded with effectiveAmount 0, whatever its mode and its non-negative
\* stored amount, and nothing is supplied or consumed on its account: the
\* stations' supplied and consumed amounts, and the modules' net amounts
\* after the station loops, are those of the plan without such connections.
C12_DanglingCarriesNothing ==
  Evaluated =>
    /\ \A i \in DOMAIN plan.connections :
         IsDanglingConnection(plan, plan.connections[i]) =>
           ConnectionRecord(plan.connections[i].id).effectiveAmount = Zero
    /\ \A s \in StationIndexes :
         /\ \A j \in DOMAIN plan.stations[s].moduleConnections :
              IsDanglingModuleConnection(plan.stations[s],
                                         plan.stations[s].moduleConnections[j]) =>
                ModuleConnectionRecord(
                  s, plan.stations[s].moduleConnections[j].id).effectiveAmount = Zero
         /\ SameModules(StationLevel(s),
                        computeStation(PrunedStation(plan.stations[s]),
                                       plan.sectors, gameData))
    /\ SameSupply(computed.stations, computeNetwork(PrunedPlan(plan), gameData).stations)

\* the consumer sB is short of ore while a custom connection storing 300
\* arrives from the missing station "sX", and a custom Station Input
\* connection storing 300 leads to the missing module "mX"
C12_Witness ==
  /\ Evaluated
  /\ \E i \in DOMAIN plan.connections :
       /\ plan.connections[i].sourceStationId = "sX"
       /\ plan.connections[i].targetStationId = "sB"
       /\ plan.connections[i].mode = "custom"
       /\ plan.connections[i].amount = Num(300)
       /\ ConnectionRecord(plan.connections[i].id).effectiveAmount = Zero
  /\ \E j \in DOMAIN plan.stations[2].moduleConnections :
       /\ plan.stations[2].moduleConnections[j].targetModuleId = "mX"
       /\ plan.stations[2].moduleConnections[j].mode = "custom"
       /\ plan.stations[2].moduleConnections[j].amount = Num(300)
  /\ computed.deficits # <<>>

(***************************************************************************)
(* The engine on stations with solar power plants in sectors                *)
(***************************************************************************)
\* station.sunlightOverride in percent: unset, darkness, a sliver, half, 150 %
SunlightOverrides == {Null, Zero, Lit(1, 64), Num(50), Num(150)}

\* a sector id, kept as a one-element sequence: a value comparable with null
SectorRef(name) == <<name>>

\* station.sectorId: none, a sector of the plan, a sector that is gone
SunlightSectorIds == {Null, SectorRef("sec1"), SectorRef("gone")}

\* sector.sunlight in percent
SectorSunlights == {Zero, Num(40), Num(200)}

\* a power station sA with a solar plant and a miner, exporting energy cells
\* (and possibly ore) to a refinery station sB
SunlightPlans ==
  {[sectors |-> <<[id |-> SectorRef("sec1"), sunlight |-> v]>>,
    stations |-> <<
      [Station("sA",
               <<Module("e1", "prod_gen_energycells", c),
                 Module("mA", "prod_gen_ore", 1)>>,
               <<>>)
         EXCEPT !.sectorId = sec, !.sunlightOverride = o],
      Station("sB", <<Module("r1", "prod_gen_refinedmetals", 1)>>, <<>>)>>,
    connections |->
      <<Connection("c1", "sA", "sB", "energycells", f)>>
      \o (IF ore THEN <<Connection("c2", "sA", "sB", "ore", <<"auto", Num(100)>>)>>
          ELSE <<>>)] :
     v \in SectorSunlights, sec \in SunlightSectorIds, o \in SunlightOverrides,
     c \in {1, 2}, ore \in BOOLEAN,
     f \in {<<"auto", Num(100)>>, <<"custom", Lit(1, 80)>>, <<"custom", Num(40)>>}}

\* App start on one of these plans, as in InitEngine
InitSunlight ==
  /\ plan \in {migratedPlan(p) : p \in SunlightPlans}
  /\ computed = createEmptyComputed
  /\ gameData = Null
  /\ nextId = 1
  /\ ManagerOpenOn(plan)

NextSunlight == setGameData

SpecSunlight == InitSunlight /\ [][NextSunlight]_vars

(***************************************************************************)
(* Properties of the thresholds and the rate modifiers                     *)
(***************************************************************************)
\* every ResourceAmount list of a ModuleComputed
ModuleListsAbove(mc) ==
  /\ AllAbove(mc.grossInputs) /\ AllAbove(mc.grossOutputs)
  /\ AllAbove(mc.netInputs) /\ AllAbove(mc.netOutputs)

\* every ResourceAmount list of a StationComputed
StationListsAbove(sc) ==
  /\ AllAbove(sc.grossInputs) /\ AllAbove(sc.grossOutputs)
  /\ AllAbove(sc.netInputs) /\ AllAbove(sc.netOutputs)
  /\ AllAbove(sc.stationInputs) /\ AllAbove(sc.stationOutputs)
  /\ AllAbove(sc.externallySupplied) /\ AllAbove(sc.externallyConsumed)
  /\ AllAbove(sc.remainingInputs) /\ AllAbove(sc.remainingOutputs)
  /\ \A k \in 1..Len(sc.modules) : ModuleListsAbove(sc.modules[k])

\* C15: no entry of any list of amounts in the NetworkComputed result, the
\* network-wide totalInputs and totalOutputs included, has an amount at or
\* below 0.01.
C15_AllAboveEpsilon ==
  Evaluated =>
    /\ AllAbove(computed.totalInputs) /\ AllAbove(computed.totalOutputs)
    /\ \A s \in StationIndexes : StationListsAbove(computed.stations[s])

(***************************************************************************)
(* The engine on stations with a workforce                                 *)
(***************************************************************************)
\* <<mode, stored amount>> of a Station Input / Station Output connection:
\* an auto connection may store any amount, 0 when it was never resolved
WorkforceFlows == {<<"auto", Zero>>, <<"auto", Num(100)>>, <<"custom", Num(40)>>}

\* a refinery station sA with refineries (100 workers each) and habitats
\* (50 places each, possibly none), drawing ore through Station Input from
\* a mining station sB without workforce
WorkforcePlans ==
  {[sectors |-> <<>>,
    stations |-> <<
      [Station("sA",
               <<Module("r1", "prod_gen_refinedmetals", cr),
                 Module("h1", "hab_arg_s", ch)>>,
               <<ModuleConnection("k1", STATION_INPUT_ID, "r1", "ore", g)>>)
         EXCEPT !.fillHabitats = fill],
      Station("sB",
              <<Module("mB", "prod_gen_ore", 4)>>,
              <<ModuleConnection("k3", "mB", STATION_OUTPUT_ID, "ore", h)>>)>>,
    connections |-> <<Connection("c1", "sB", "sA", "ore", <<"auto", Num(100)>>)>>] :
     cr \in {1, 2}, ch \in 0..3, fill \in BOOLEAN,
     g \in WorkforceFlows, h \in {<<"auto", Zero>>, <<"auto", Num(100)>>}}

\* App start on one of these plans, as in InitEngine
InitWorkforce ==
  /\ plan \in {migratedPlan(p) : p \in WorkforcePlans}
  /\ computed = createEmptyComputed
  /\ gameData = Null
  /\ nextId = 1
  /\ ManagerOpenOn(plan)

NextWorkforce == setGameData

SpecWorkforce == InitWorkforce /\ [][NextWorkforce]_vars

(***************************************************************************)
(* Properties of the guarded ratios                                        *)
(***************************************************************************)
\* a number that is neither NaN nor an infinity
Finite(a) == a[2] # 0

AllFinite(list) == \A i \in 1..Len(list) : Finite(list[i].amount)

ModuleFinite(mc) ==
  /\ AllFinite(mc.grossInputs) /\ AllFinite(mc.grossOutputs)
  /\ AllFinite(mc.netInputs) /\ AllFinite(mc.netOutputs)

StationFinite(sc) ==
  /\ Finite(sc.effectiveSunlight)
  /\ Finite(sc.totalWorkforceRequired) /\ Finite(sc.totalWorkforceCapacity)
  /\ Finite(sc.actualPopulation)
  /\ Finite(sc.workforceFoodDemand) /\ Finite(sc.workforceMedicalDemand)
  /\ AllFinite(sc.grossInputs) /\ AllFinite(sc.grossOutputs)
  /\ AllFinite(sc.netInputs) /\ AllFinite(sc.netOutputs)
  /\ AllFinite(sc.availableForImport) /\ AllFinite(sc.availableForExport)
  /\ AllFinite(sc.stationInputs) /\ AllFinite(sc.stationOutputs)
  /\ AllFinite(sc.externallySupplied) /\ AllFinite(sc.externallyConsumed)
  /\ AllFinite(sc.remainingInputs) /\ AllFinite(sc.remainingOutputs)
  /\ \A k \in 1..Len(sc.modules) : ModuleFinite(sc.modules[k])
  /\ \A k \in 1..Len(sc.moduleConnections) :
       Finite(sc.moduleConnections[k].effectiveAmount)

\* C16: with positive recipe cycle times, no number of the evaluation's
\* result is NaN or infinite: every ratio the engine computes has its
\* divisor tested first (required workforce 0, habitat capacity 0, total
\* requested or exported at the station boundary below 0.01).
C16_AllFinite ==
  Evaluated =>
    /\ \A s \in StationIndexes : StationFinite(computed.stations[s])
    /\ \A k \in 1..Len(computed.connections) :
         Finite(computed.connections[k].effectiveAmount)
    /\ AllFinite(computed.totalInputs) /\ AllFinite(computed.totalOutputs)
    /\ \A k \in 1..Len(computed.deficits) :
         /\ Finite(computed.deficits[k].required)
         /\ Finite(computed.deficits[k].supplied)
         /\ Finite(computed.deficits[k].deficit)

\* the mining station needs no workers and has no habitat, the refinery
\* station has a habitat module of capacity 0, and it is supplied with ore
\* from outside while its Station Input connection stores the amount 0
C16_Witness ==
  /\ Evaluated
  /\ computed.stations[2].totalWorkforceRequired = Zero
  /\ computed.stations[1].totalWorkforceCapacity = Zero
  /\ plan.stations[1].modules[2].blueprintId = "hab_arg_s"
  /\ Gt(computed.stations[1].totalWorkforceRequired, Zero)
  /\ Ge(MapGet(computed.stations[1].externallySupplied, "ore"), Epsilon)
  /\ plan.stations[1].moduleConnections[1].amount = Zero
  /\ plan.stations[2].moduleConnections[1].amount = Zero
  /\ Ge(MapGet(computed.stations[2].externallyConsumed, "ore"), Epsilon)

(***************************************************************************)
(* Properties of the workforce bonus                                       *)
(***************************************************************************)
\* the places of the production modules with a recipe: <<station, module>>
ProductionPlaces ==
  UNION {{<<s, k>> : k \in {j \in 1..Len(plan.stations[s].modules) :
                              plan.stations[s].modules[j].blueprintId
                                \in DOMAIN gameData.production}} :
         s \in StationIndexes}

RecipeAt(place) ==
  findRecipeForModule(
    gameData.production[plan.stations[place[1]].modules[place[2]].blueprintId],
    gameData.recipes)

\* population = capacity if fillHabitats else min(required, capacity)
Population(required, capacity, fillHabitats) ==
  IF fillHabitats THEN capacity ELSE Min(required, capacity)

\* r = min(population / required, 1), and 0 when nothing is required
StaffingRatio(population, required) ==
  IF required = Zero THEN Zero ELSE Min(FDiv(population, required), One)

\* the output per hour of the module at a place under a production multiplier
OutputUnder(place, multiplier) ==
  FMul(FMul(FMul(Num(RecipeAt(place).amount),
                 Num(plan.stations[place[1]].modules[place[2]].count)),
            multiplier),
       FDiv(Num(HOUR_IN_SECONDS), Num(RecipeAt(place).time)))

GrossOutputAt(place) ==
  MapGet(computed.stations[place[1]].modules[place[2]].grossOutputs,
         RecipeAt(place).wareId)

\* the multiplier 1 + b * r of the claim at a place, from the station's
\* reported required workforce and capacity
BonusAt(place) ==
  FAdd(One,
       FMul(RecipeAt(place).workforceBonus,
            StaffingRatio(Population(computed.stations[place[1]].totalWorkforceRequired,
                                     computed.stations[place[1]].totalWorkforceCapacity,
                                     plan.stations[place[1]].fillHabitats),
                          computed.stations[place[1]].totalWorkforceRequired)))

FullyStaffed(s) ==
  /\ Gt(computed.stations[s].totalWorkforceRequired, Zero)
  /\ Ge(computed.stations[s].totalWorkforceCapacity,
        computed.stations[s].totalWorkforceRequired)

\* C17: a production module (of a ware that sunlight does not affect)
\* produces at 1 + b * r times its base rate, with r = min(population /
\* required, 1), r = 0 when nothing is required, and population = capacity
\* if fillHabitats else min(required, capacity); the rate lies between the
\* base rate and 1 + b times it, and is 1 + b times it when capacity >=
\* required > 0, however large the capacity; bonus 0.4 at ratio 0.5 is 1.2.
C17_WorkforceMultiplier ==
  Evaluated =>
    /\ \A place \in ProductionPlaces :
         /\ GrossOutputAt(place) = OutputUnder(place, BonusAt(place))
         /\ Ge(GrossOutputAt(place), OutputUnder(place, One))
         /\ Le(GrossOutputAt(place),
               OutputUnder(place, FAdd(One, RecipeAt(place).workforceBonus)))
         /\ FullyStaffed(place[1]) =>
              GrossOutputAt(place) =
                OutputUnder(place, FAdd(One, RecipeAt(place).workforceBonus))
    /\ getWorkforceMultiplier(Lit(2, 5), Lit(1, 2)) = Lit(6, 5)

\* a station whose habitats are filled beyond the requirement: its refinery
\* runs at the full bonus, one and a quarter of the base rate of 50
C17_Witness ==
  /\ Evaluated
  /\ plan.stations[1].fillHabitats
  /\ Gt(computed.stations[1].actualPopulation, computed.stations[1].totalWorkforceRequired)
  /\ plan.stations[1].modules[1].count = 1
  /\ GrossOutputAt(<<1, 1>>) = Lit(125, 2)

(***************************************************************************)
(* Properties of sunlight                                                  *)
(***************************************************************************)
\* the sector of the plan a station is placed in, if there is one
SectorsOf(s) ==
  {i \in 1..Len(plan.sectors) : plan.sectors[i].id = plan.stations[s].sectorId}

\* the override if set, else the sector's sunlight if the sector exists,
\* else 100
SunlightOf(s) ==
  IF plan.stations[s].sunlightOverride # Null THEN plan.stations[s].sunlightOverride
  ELSE IF SectorsOf(s) # {} THEN plan.sectors[CHOOSE i \in SectorsOf(s) : TRUE].sunlight
  ELSE Num(100)

\* C18: an energy-cell module's gross output is its nominal output times
\* effectiveSunlight / 100, where effectiveSunlight is the station's
\* override if one is set (0 included), else the sunlight of its sector if
\* the sector exists, else 100; the output of a module producing any other
\* ware does not depend on sunlight.
C18_SunlightScaling ==
  Evaluated =>
    \A place \in ProductionPlaces :
      /\ computed.stations[place[1]].effectiveSunlight = SunlightOf(place[1])
      /\ GrossOutputAt(place) =
           IF RecipeAt(place).wareId = "energycells"
           THEN OutputUnder(place, FDiv(SunlightOf(place[1]), Num(100)))
           ELSE OutputUnder(place, BonusAt(place))

\* a power station in a sector of 200 % sunlight whose override is 0: the
\* solar plant produces nothing, the miner its 60 ore per hour
C18_Witness ==
  /\ Evaluated
  /\ plan.stations[1].sunlightOverride = Zero
  /\ SectorsOf(1) # {}
  /\ plan.sectors[1].sunlight = Num(200)
  /\ GrossOutputAt(<<1, 1>>) = Zero
  /\ GrossOutputAt(<<1, 2>>) = Num(60)

(***************************************************************************)
(* Module counts edited on a power station                                 *)
(***************************************************************************)
\* a station in a sector of some sunlight, with a solar plant, a refinery
\* and possibly a habitat, each at count 1, and no connections
CountPlans ==
  {[sectors |-> <<[id |-> SectorRef("sec1"), sunlight |-> v]>>,
    stations |-> <<
      [Station("sA",
               <<Module("e1", "prod_gen_energycells", 1),
                 Module("r1", "prod_gen_refinedmetals", 1)>>
               \o (IF hab THEN <<Module("h1", "hab_arg_s", 1)>> ELSE <<>>),
               <<>>)
         EXCEPT !.sectorId = SectorRef("sec1")]>>,
    connections |-> <<>>] :
     v \in {Num(40), Num(100), Num(110), Num(200)}, hab \in BOOLEAN}

\* the editor open on one of these plans
InitCount ==
  /\ plan \in CountPlans
  /\ computed = computeNetwork(plan, Catalog)
  /\ gameData = Catalog
  /\ nextId = 1
  /\ ManagerOpenOn(plan)

NextCount ==
  \E s \in StationIds : \E m \in ModuleIds(s) : \E c \in 1..MaxCount :
    updateModule(s, m, [count |-> c])

SpecCount == InitCount /\ [][NextCount]_vars

(***************************************************************************)
(* Properties of the module count                                          *)
(***************************************************************************)
\* the step multiplies the count of the module at a place by k
CountTimes(place, k) ==
  /\ CountChanges(place[1], place[2])
  /\ plan'.stations[place[1]].modules[place[2]].count =
       k * plan.stations[place[1]].modules[place[2]].count

\* the step leaves the station's sunlight and worker ratio as they were
RatesFixed(s) ==
  /\ computed'.stations[s].effectiveSunlight = computed.stations[s].effectiveSunlight
  /\ StaffingRatio(computed'.stations[s].actualPopulation,
                   computed'.stations[s].totalWorkforceRequired)
       = StaffingRatio(computed.stations[s].actualPopulation,
                       computed.stations[s].totalWorkforceRequired)

\* k * a, not rounded
Times(k, a) == Rat(k * a[1], a[2])

\* list after holds the wares of list before, each amount exactly k times
ExactlyTimes(k, before, after) ==
  /\ Len(after) = Len(before)
  /\ \A i \in 1..Len(before) :
       /\ after[i].wareId = before[i].wareId
       /\ after[i].amount = Times(k, before[i].amount)

\* the same, each amount k times up to rounding
NearlyTimes(k, before, after) ==
  /\ Len(after) = Len(before)
  /\ \A i \in 1..Len(before) :
       /\ after[i].wareId = before[i].wareId
       /\ Near(after[i].amount, Times(k, before[i].amount))

GrossIsNet(mc) ==
  mc.netInputs = mc.grossInputs /\ mc.netOutputs = mc.grossOutputs

\* C19: when a module's count is multiplied by k while sunlight and worker
\* ratio stay as they were, every amount of the module's grossInputs and
\* grossOutputs becomes exactly k times what it was, and the module's net
\* lists are its gross lists (no connection touches them).
C19_LinearExact ==
  [][\A place \in ProductionPlaces : \A k \in 2..MaxCount :
       (CountTimes(place, k) /\ RatesFixed(place[1])) =>
         /\ ExactlyTimes(k, computed.stations[place[1]].modules[place[2]].grossInputs,
                         computed'.stations[place[1]].modules[place[2]].grossInputs)
         /\ ExactlyTimes(k, computed.stations[place[1]].modules[place[2]].grossOutputs,
                         computed'.stations[place[1]].modules[place[2]].grossOutputs)
         /\ GrossIsNet(computed'.stations[place[1]].modules[place[2]])]_vars

\* C19 amended: the amounts become k times what they were up to
\* floating-point rounding, not always exactly.
C19_LinearNear ==
  [][\A place \in ProductionPlaces : \A k \in 2..MaxCount :
       (CountTimes(place, k) /\ RatesFixed(place[1])) =>
         /\ NearlyTimes(k, computed.stations[place[1]].modules[place[2]].grossInputs,
                        computed'.stations[place[1]].modules[place[2]].grossInputs)
         /\ NearlyTimes(k, computed.stations[place[1]].modules[place[2]].grossOutputs,
                        computed'.stations[place[1]].modules[place[2]].grossOutputs)
         /\ GrossIsNet(computed'.stations[place[1]].modules[place[2]])]_vars

\* a solar plant at count 3 under 110 % sunlight, and a refinery at count 3
\* without workforce drawing 300 ore per hour
C19_Witness ==
  /\ Evaluated
  /\ plan.sectors[1].sunlight = Num(110)
  /\ plan.stations[1].modules[1].count = 3
  /\ plan.stations[1].modules[2].count = 3
  /\ Len(plan.stations[1].modules) = 2
  /\ computed.stations[1].modules[2].grossInputs = <<RA("ore", Num(300))>>
  /\ Near(GrossOutputAt(<<1, 1>>), Num(396))

(***************************************************************************)
(* Properties of the order of resolution within a station                  *)
(***************************************************************************)
StationInputs(s) == stationInputConnections(plan.stations[s].moduleConnections)
StationOutputs(s) == stationOutputConnections(plan.stations[s].moduleConnections)

\* the effective amounts of the connections of a list, in its order
EffectiveAmounts(s, conns) ==
  [k \in 1..Len(conns) |-> ModuleConnectionRecord(s, conns[k].id).effectiveAmount]

\* every module-to-module connection of station s delivering the ware to the
\* module, wherever it stands in station.moduleConnections
InternalInto(s, moduleId, wareId) ==
  LET Into(c) == c.targetModuleId = moduleId /\ c.wareId = wareId
  IN  SelectSeq(ModuleToModule(s), Into)

\* every module-to-module connection taking the ware from the module
InternalFrom(s, moduleId, wareId) ==
  LET From(c) == c.sourceModuleId = moduleId /\ c.wareId = wareId
  IN  SelectSeq(ModuleToModule(s), From)

\* the Station Input connections before the i-th one with its target and ware
EarlierInputs(s, i) ==
  LET conns == StationInputs(s)
      Same(j) == /\ conns[j].targetModuleId = conns[i].targetModuleId
                 /\ conns[j].wareId = conns[i].wareId
      earlier == EarlierIndexes(i, Same)
  IN  [k \in 1..Len(earlier) |-> conns[earlier[k]]]

\* the Station Output connections before the i-th one with its source and ware
EarlierOutputs(s, i) ==
  LET conns == StationOutputs(s)
      Same(j) == /\ conns[j].sourceModuleId = conns[i].sourceModuleId
                 /\ conns[j].wareId = conns[i].wareId
      earlier == EarlierIndexes(i, Same)
  IN  [k \in 1..Len(earlier) |-> conns[earlier[k]]]

\* what the target of the i-th Station Input connection needs of the ware
\* once every internal connection into it has been applied
NeedAfterInternal(s, i) ==
  Drain(
    Drain(MapGet(ModuleGross(s, StationInputs(s)[i].targetModuleId, FALSE),
                 StationInputs(s)[i].wareId),
          EffectiveAmounts(s, InternalInto(s, StationInputs(s)[i].targetModuleId,
                                           StationInputs(s)[i].wareId))),
    EffectiveAmounts(s, EarlierInputs(s, i)))

\* what the source of the i-th Station Output connection has left of the
\* ware once every internal connection out of it has been applied
AvailableAfterInternal(s, i) ==
  Drain(
    Drain(MapGet(ModuleGross(s, StationOutputs(s)[i].sourceModuleId, TRUE),
                 StationOutputs(s)[i].wareId),
          EffectiveAmounts(s, InternalFrom(s, StationOutputs(s)[i].sourceModuleId,
                                           StationOutputs(s)[i].wareId))),
    EffectiveAmounts(s, EarlierOutputs(s, i)))

\* the amount a boundary connection carries when that much remains
BoundaryAmount(conn, remains) ==
  IF ModeOf(conn) = "custom" THEN Min(conn.amount, remains) ELSE remains

\* a Station Input -> Station Output connection is in both boundary loops
\* and has no module; the others have one module
HasModuleEnd(conn) ==
  ~(conn.sourceModuleId = STATION_INPUT_ID /\ conn.targetModuleId = STATION_OUTPUT_ID)

\* the amount a module-to-module connection carries between a source with
\* that much left and a target with that much need
InternalAmount(conn, sourceAvailable, targetNeed) ==
  IF ModeOf(conn) = "custom" THEN Min3(conn.amount, sourceAvailable, targetNeed)
  ELSE Min(sourceAvailable, targetNeed)

\* C20: every module-to-module connection of a station is resolved against
\* what the module-to-module connections before it have left, untouched by
\* any boundary connection, and the effectiveAmount of every Station Input
\* and Station Output connection is computed from the need, or the
\* availability, that remains after all module-to-module connections have
\* been applied, wherever the connections stand in station.moduleConnections.
C20_InternalBeforeBoundary ==
  Evaluated =>
    \A s \in StationIndexes :
      /\ \A i \in 1..Len(ModuleToModule(s)) :
           ModuleConnectionRecord(s, ModuleToModule(s)[i].id).effectiveAmount
             = InternalAmount(ModuleToModule(s)[i],
                              ModuleSourceRemaining(s, i), ModuleTargetRemaining(s, i))
      /\ \A i \in 1..Len(StationInputs(s)) :
           HasModuleEnd(StationInputs(s)[i]) =>
             ModuleConnectionRecord(s, StationInputs(s)[i].id).effectiveAmount
               = BoundaryAmount(StationInputs(s)[i], NeedAfterInternal(s, i))
      /\ \A i \in 1..Len(StationOutputs(s)) :
           HasModuleEnd(StationOutputs(s)[i]) =>
             ModuleConnectionRecord(s, StationOutputs(s)[i].id).effectiveAmount
               = BoundaryAmount(StationOutputs(s)[i], AvailableAfterInternal(s, i))

\* a Station Input connection into the refinery stands first in the list, a
\* connection from the miner into the refinery second; the miner's ore is
\* delivered and the Station Input connection carries only the rest
C20_Witness ==
  /\ Evaluated
  /\ Len(plan.stations[1].moduleConnections) = 2
  /\ IsStationInput(plan.stations[1].moduleConnections[1])
  /\ IsModuleToModule(plan.stations[1].moduleConnections[2])
  /\ plan.stations[1].moduleConnections[1].targetModuleId = "m2"
  /\ plan.stations[1].moduleConnections[2].targetModuleId = "m2"
  /\ ModeOf(plan.stations[1].moduleConnections[1]) = "auto"
  /\ Gt(ModuleConnectionRecord(1, "k2").effectiveAmount, Zero)
  /\ Gt(ModuleConnectionRecord(1, "k1").effectiveAmount, Zero)
  /\ Lt(ModuleConnectionRecord(1, "k1").effectiveAmount,
        MapGet(ModuleGross(1, "m2", FALSE), "ore"))

(***************************************************************************)
(* Properties of the connection groups of a station                        *)
(***************************************************************************)
\* the number of ConnectionComputed records of station s with the id
RecordsOf(s, id) ==
  Cardinality({k \in 1..Len(computed.stations[s].moduleConnections) :
                 computed.stations[s].moduleConnections[k].connectionId = id})

UniqueIds(list) == \A i, j \in 1..Len(list) : list[i].id = list[j].id => i = j

\* C21: every module connection of a station, whatever its endpoints, is
\* processed in exactly one of the three groups and yields exactly one
\* ConnectionComputed record: with unique stored ids, the ids of
\* StationComputed.moduleConnections are unique and there is one per
\* stored connection.
C21_OneRecordEach ==
  Evaluated =>
    \A s \in StationIndexes :
      UniqueIds(plan.stations[s].moduleConnections) =>
        /\ Len(computed.stations[s].moduleConnections)
             = Len(plan.stations[s].moduleConnections)
        /\ \A i \in 1..Len(plan.stations[s].moduleConnections) :
             RecordsOf(s, plan.stations[s].moduleConnections[i].id) = 1

(***************************************************************************)
(* Connection modes edited on a network                                    *)
(***************************************************************************)
\* the modes a plan may hold for a connection that is not custom
UncappedModes == {"auto", Undefined}

\* a refinery station sA fed by its own miner and through Station Input, a
\* mining station sB exporting through Station Output, and two connections
\* sB -> sA; every connection stores the same amount
ModePlans ==
  {[sectors |-> <<>>,
    stations |-> <<
      Station("sA",
              <<Module("mA", "prod_gen_ore", 1),
                Module("r1", "prod_gen_refinedmetals", 1),
                Module("r2", "prod_gen_refinedmetals", 2)>>,
              <<ModuleConnection("k1", "mA", "r1", "ore", <<m[1], a>>),
                ModuleConnection("k2", STATION_INPUT_ID, "r2", "ore", <<m[2], a>>)>>),
      Station("sB",
              <<Module("mB", "prod_gen_ore", b)>>,
              <<ModuleConnection("k3", "mB", STATION_OUTPUT_ID, "ore", <<"auto", a>>)>>)>>,
    connections |->
      <<Connection("c1", "sB", "sA", "ore", <<m[3], a>>),
        Connection("c2", "sB", "sA", "ore", <<"auto", a>>)>>] :
     m \in UncappedModes \X UncappedModes \X UncappedModes,
     a \in {Num(40), Num(300)}, b \in {1, 4}}

\* the editor open on one of these plans
InitMode ==
  /\ plan \in {migratedPlan(p) : p \in ModePlans}
  /\ computed = computeNetwork(plan, Catalog)
  /\ gameData = Catalog
  /\ nextId = 1
  /\ ManagerOpenOn(plan)

\* the mode selector of a connection panel
NextMode ==
  \E mode \in {"auto", "max", "custom"} :
    \/ \E s \in StationIds : \E id \in ModuleConnectionIds(s) :
         updateModuleConnection(s, id, [mode |-> mode])
    \/ \E id \in ConnectionIds : updateConnection(id, [mode |-> mode])

SpecMode == InitMode /\ [][NextMode]_vars

(***************************************************************************)
(* Properties of the modes                                                 *)
(***************************************************************************)
\* a mode with every mode other than custom written as auto
Uncapped(mode) == IF mode = "custom" THEN "custom" ELSE "auto"

\* a plan with the modes of all its connections written that way
WithUncappedAsAuto(p) ==
  [p EXCEPT
     !.stations =
       [i \in 1..Len(p.stations) |->
          [p.stations[i] EXCEPT !.moduleConnections =
             [k \in 1..Len(@) |-> [@[k] EXCEPT !.mode = Uncapped(@)]]]],
     !.connections = [k \in 1..Len(@) |-> [@[k] EXCEPT !.mode = Uncapped(@)]]]

\* the step switches some connection between auto, max and no mode, and
\* changes nothing else
ModeSwitched ==
  /\ plan' # plan
  /\ WithUncappedAsAuto(plan') = WithUncappedAsAuto(plan)

\* C22: switching a module connection or an inter-station connection
\* between auto, max and an unset mode leaves the whole result of the
\* evaluation as it was.
C22_AutoIsMax ==
  [][ModeSwitched => computed' = computed]_vars

\* an inter-station connection in max mode from a source with more ore than
\* the target requests, and an internal connection in max mode
C22_Witness ==
  /\ Evaluated
  /\ plan.connections[1].mode = "max"
  /\ plan.stations[1].moduleConnections[1].mode = "max"
  /\ plan.stations[1].moduleConnections[2].mode = "max"
  /\ ConnectionRecord("c1").targetConstrained
  /\ Gt(ConnectionRecord("c1").effectiveAmount, Zero)
  /\ Gt(ModuleConnectionRecord(1, "k1").effectiveAmount, Zero)

(***************************************************************************)
(* Properties of the network totals                                        *)
(***************************************************************************)
\* the stored amounts of the connections of the ware leaving station s, in
\* the order of plan.connections
StoredFrom(s, wareId) ==
  LET From(c) == c.sourceStationId = plan.stations[s].id /\ c.wareId = wareId
      conns == SelectSeq(plan.connections, From)
  IN  [k \in 1..Len(conns) |-> conns[k].amount]

\* station s's netOutputs amount of the ware less those stored amounts
UnexportedOf(s, wareId) ==
  FSub(MapGet(computed.stations[s].netOutputs, wareId),
       Total(Zero, StoredFrom(s, wareId)))

\* the sum of the positive ones over the stations that list the ware
UnexportedTotal(wareId) ==
  LET Counts(s) == /\ IndexOfWare(computed.stations[s].netOutputs, wareId) # 0
                   /\ Gt(UnexportedOf(s, wareId), Zero)
      stations == SelectSeq([s \in 1..Len(computed.stations) |-> s], Counts)
  IN  Total(Zero, [k \in 1..Len(stations) |-> UnexportedOf(stations[k], wareId)])

StoredNonNegative ==
  /\ \A k \in 1..Len(plan.connections) : Ge(plan.connections[k].amount, Zero)
  /\ \A s \in StationIndexes : \A k \in 1..Len(plan.stations[s].moduleConnections) :
       Ge(plan.stations[s].moduleConnections[k].amount, Zero)

\* the effective amounts of the connections of the ware into station s, in
\* the order of plan.connections
EffectiveInto(s, wareId) ==
  LET Into(c) == c.targetStationId = plan.stations[s].id /\ c.wareId = wareId
      conns == SelectSeq(plan.connections, Into)
  IN  [k \in 1..Len(conns) |-> ConnectionRecord(conns[k].id).effectiveAmount]

\* the same out of station s
EffectiveFrom(s, wareId) ==
  LET From(c) == c.sourceStationId = plan.stations[s].id /\ c.wareId = wareId
      conns == SelectSeq(plan.connections, From)
  IN  [k \in 1..Len(conns) |-> ConnectionRecord(conns[k].id).effectiveAmount]

LoopPlans ==
  {[sectors |-> <<>>,
    stations |-> <<
      Station("sA",
              <<Module("mA", "prod_gen_ore", a), Module("r1", "prod_gen_refinedmetals", 1)>>,
              <<ModuleConnection("k1", "mA", STATION_OUTPUT_ID, "ore", <<"auto", Num(100)>>),
                ModuleConnection("k2", STATION_INPUT_ID, "r1", "ore", <<"auto", Num(100)>>)>>),
      Station("sB",
              <<Module("r2", "prod_gen_refinedmetals", 1)>>,
              <<ModuleConnection("k3", STATION_INPUT_ID, "r2", "ore", <<"auto", Num(100)>>)>>)>>,
    connections |->
      IF first
      THEN <<Connection("c1", ends[1], ends[2], "ore", f1),
             Connection("c2", "sA", "sB", "ore", f2)>>
      ELSE <<Connection("c2", "sA", "sB", "ore", f2),
             Connection("c1", ends[1], ends[2], "ore", f1)>>] :
     a \in {1, 4}, ends \in {"sA", "sX"} \X {"sA", "sB", "sX"}, first \in BOOLEAN,
     f1 \in DanglingFlows, f2 \in DanglingFlows}

\* App start on one of these plans, as in InitEngine
InitLoop ==
  /\ plan \in {migratedPlan(p) : p \in LoopPlans}
  /\ computed = createEmptyComputed
  /\ gameData = Null
  /\ nextId = 1
  /\ ManagerOpenOn(plan)

NextLoop == setGameData

SpecLoop == InitLoop /\ [][NextLoop]_vars

(***************************************************************************)
(* Properties of the flow between stations                                 *)
(***************************************************************************)
\* the maps stationSupplied and stationConsumed as the connection loop
\* leaves them, before externallySupplied / externallyConsumed filter them
Accumulated ==
  resolveConnections(plan.connections,
                     InitialNetworkTracking([s \in StationIndexes |-> StationLevel(s)]))

HasBothEnds(conn) ==
  conn.sourceStationId \in StationIds /\ conn.targetStationId \in StationIds

\* C25: with no negative stored amount, what the loop accumulates as
\* supplied to a station is the sum of the effective amounts of the
\* connections into it, what it accumulates as consumed from a station is
\* the sum of those out of it, and a connection with a missing endpoint
\* carries 0: per ware, the effective amounts of all connections, the
\* amounts supplied and the amounts consumed have the same total.
C25_FlowConserved ==
  (Evaluated /\ StoredNonNegative) =>
    /\ LET tracking == Accumulated
       IN \A s \in StationIndexes : \A w \in Wares :
            /\ MapGet(tracking.stationSupplied[plan.stations[s].id], w)
                 = Total(Zero, EffectiveInto(s, w))
            /\ MapGet(tracking.stationConsumed[plan.stations[s].id], w)
                 = Total(Zero, EffectiveFrom(s, w))
    /\ \A k \in 1..Len(plan.connections) :
         ~HasBothEnds(plan.connections[k]) =>
           ConnectionRecord(plan.connections[k].id).effectiveAmount = Zero

\* a connection from sA to itself carrying ore, beside a connection to sB
C25_Witness ==
  /\ Evaluated /\ StoredNonNegative
  /\ \E k \in 1..Len(plan.connections) :
       /\ plan.connections[k].sourceStationId = "sA"
       /\ plan.connections[k].targetStationId = "sA"
       /\ Gt(ConnectionRecord(plan.connections[k].id).effectiveAmount, Zero)
  /\ Gt(ConnectionRecord("c2").effectiveAmount, Zero)
  /\ Gt(MapGet(Accumulated.stationSupplied["sA"], "ore"), Zero)
  /\ MapGet(Accumulated.stationConsumed["sA"], "ore")
       = FAdd(MapGet(Accumulated.stationSupplied["sA"], "ore"),
              MapGet(Accumulated.stationSupplied["sB"], "ore"))

(***************************************************************************)
(* Properties of the module amounts after the network cascade              *)
(***************************************************************************)
\* the Station Input connections of station s delivering the ware to the module
StationInputsInto(s, moduleId, wareId) ==
  LET Into(c) == c.targetModuleId = moduleId
  IN  SelectSeq(StationInputsFor(s, wareId), Into)

\* the inter-station connections supply the whole stationInputs amount
FullySupplied(s, wareId) ==
  /\ IndexOfWare(computed.stations[s].stationInputs, wareId) # 0
  /\ Supplied(plan.stations[s].id, wareId) = MapGet(computed.stations[s].stationInputs, wareId)
  /\ DeficitsFor(plan.stations[s].id, wareId) = {}
  /\ IndexOfWare(computed.stations[s].remainingInputs, wareId) = 0

\* what the k-th module of station s still needed of the ware at station
\* level was all taken by its Station Input connections
NeedTakenByStationInput(s, k, wareId) ==
  /\ IndexOfWare(StationLevelNetInputs(s, k), wareId) # 0
  /\ Total(Zero, EffectiveAmounts(s, StationInputsInto(s, computed.stations[s].modules[k].moduleId, wareId)))
       = MapGet(StationLevelNetInputs(s, k), wareId)

\* C26: where the inter-station connections supply a station's whole
\* stationInputs amount of a ware, no module whose remaining need was
\* entirely taken by its Station Input connections keeps a netInputs entry
\* for the ware, whatever the modes and stored amounts of those connections.
C26_FullSupplyClearsDemand ==
  Evaluated =>
    \A s \in StationIndexes : \A w \in Wares :
      FullySupplied(s, w) =>
        \A k \in 1..Len(computed.stations[s].modules) :
          NeedTakenByStationInput(s, k, w) =>
            IndexOfWare(computed.stations[s].modules[k].netInputs, w) = 0

(***************************************************************************)
(* Queries on the evaluated network (engine/computeNetwork.ts)             *)
(***************************************************************************)
getStationDeficits(network, stationId) ==
  LET OfStation(d) == d.stationId = stationId
  IN  SelectSeq(network.deficits, OfStation)

hasStationDeficits(network, stationId) ==
  \E i \in 1..Len(network.deficits) : network.deficits[i].stationId = stationId

getStationDeficitCount(network, stationId) ==
  LET OfStation(d) == d.stationId = stationId
  IN  Len(SelectSeq(network.deficits, OfStation))

(***************************************************************************)
(* Amounts edited around the 0.01 threshold                                *)
(***************************************************************************)
\* amounts a user can type whose differences lie on either side of 0.01
ThresholdAmounts == {Zero, Num(2), Lit(129, 64), Lit(65, 32), Num(3)}

\* a refinery station sA that imports ore over a custom Station Input
\* connection, and a mining station sB that delivers it over two custom
\* connections
ThresholdPlans ==
  {[sectors |-> <<>>,
    stations |-> <<
      Station("sA",
              <<Module("r1", "prod_gen_refinedmetals", 1)>>,
              <<ModuleConnection("k1", STATION_INPUT_ID, "r1", "ore", <<"custom", a>>)>>),
      Station("sB",
              <<Module("mB", "prod_gen_ore", 1)>>,
              <<ModuleConnection("k3", "mB", STATION_OUTPUT_ID, "ore", <<"auto", Num(60)>>)>>)>>,
    connections |->
      <<Connection("c1", "sB", "sA", "ore", <<"custom", f1>>),
        Connection("c2", "sB", "sA", "ore", <<"custom", f2>>)>>] :
     a \in ThresholdAmounts, f1 \in ThresholdAmounts, f2 \in ThresholdAmounts}

\* the editor open on one of these plans
InitThreshold ==
  /\ plan \in {migratedPlan(p) : p \in ThresholdPlans}
  /\ computed = computeNetwork(plan, Catalog)
  /\ gameData = Catalog
  /\ nextId = 1
  /\ ManagerOpenOn(plan)

\* the amount field of a connection panel
NextThreshold ==
  \E amount \in ThresholdAmounts :
    \/ updateModuleConnection("sA", "k1", [amount |-> amount])
    \/ \E id \in ConnectionIds : updateConnection(id, [amount |-> amount])

SpecThreshold == InitThreshold /\ [][NextThreshold]_vars

(***************************************************************************)
(* Properties of the deficit list                                          *)
(***************************************************************************)
\* C27: for every station and ware a deficit exists iff remainingInputs has
\* the ware; the deficit then equals the remainingInputs amount and is above
\* 0.01; there is at most one deficit per station and ware;
\* getStationDeficitCount is the number of such wares and hasStationDeficits
\* says whether it is positive.
C27_DeficitsAreRemainingInputs ==
  Evaluated =>
    \A s \in StationIndexes :
      /\ \A w \in Wares :
           /\ Cardinality(DeficitsFor(plan.stations[s].id, w)) <= 1
           /\ DeficitsFor(plan.stations[s].id, w) # {}
                <=> IndexOfWare(computed.stations[s].remainingInputs, w) # 0
           /\ \A i \in DeficitsFor(plan.stations[s].id, w) :
                /\ computed.deficits[i].deficit = MapGet(computed.stations[s].remainingInputs, w)
                /\ Gt(computed.deficits[i].deficit, Epsilon)
      /\ getStationDeficitCount(computed, plan.stations[s].id)
           = Cardinality({w \in Wares : IndexOfWare(computed.stations[s].remainingInputs, w) # 0})
      /\ hasStationDeficits(computed, plan.stations[s].id)
           <=> getStationDeficitCount(computed, plan.stations[s].id) > 0

(***************************************************************************)
(* Custom amounts splitting one module's need or surplus                   *)
(***************************************************************************)
SplitAmounts == {Zero, Lit(1, 8), Lit(41, 4), Num(300)}

\* a refinery whose need is drawn over two custom Station Input connections
\* and an auto one taking the rest, and a miner whose output leaves over two
\* custom Station Output connections and an auto one taking the rest
SplitPlans ==
  {[sectors |-> <<>>,
    stations |-> <<
      Station("sA",
              <<Module("r1", "prod_gen_refinedmetals", 1)>>,
              <<ModuleConnection("k1", STATION_INPUT_ID, "r1", "ore", <<"custom", a[1]>>),
                ModuleConnection("k2", STATION_INPUT_ID, "r1", "ore", <<"custom", a[2]>>),
                ModuleConnection("k3", STATION_INPUT_ID, "r1", "ore", <<"auto", Num(100)>>)>>),
      Station("sB",
              <<Module("mB", "prod_gen_ore", 1)>>,
              <<ModuleConnection("k4", "mB", STATION_OUTPUT_ID, "ore", <<"custom", b[1]>>),
                ModuleConnection("k5", "mB", STATION_OUTPUT_ID, "ore", <<"custom", b[2]>>),
                ModuleConnection("k6", "mB", STATION_OUTPUT_ID, "ore", <<"auto", Num(60)>>)>>)>>,
    connections |-> <<Connection("c1", "sB", "sA", "ore", <<"auto", Num(60)>>)>>] :
     a \in SplitAmounts \X SplitAmounts, b \in SplitAmounts \X SplitAmounts}

\* the editor open on one of these plans
InitSplit ==
  /\ plan \in {migratedPlan(p) : p \in SplitPlans}
  /\ computed = computeNetwork(plan, Catalog)
  /\ gameData = Catalog
  /\ nextId = 1
  /\ ManagerOpenOn(plan)

\* the amount field of a custom module connection
NextSplit ==
  \E amount \in SplitAmounts :
    \/ \E id \in {"k1", "k2"} : updateModuleConnection("sA", id, [amount |-> amount])
    \/ \E id \in {"k4", "k5"} : updateModuleConnection("sB", id, [amount |-> amount])

SpecSplit == InitSplit /\ [][NextSplit]_vars

(***************************************************************************)
(* Properties of the station boundary against the net amounts              *)
(***************************************************************************)
\* C28: with no negative stored amount, for every station and ware the
\* stationOutputs amount is at most the netOutputs amount and the
\* stationInputs amount is at most the netInputs amount.
C28_BoundaryWithinNet ==
  (Evaluated /\ StoredNonNegative) =>
    \A s \in StationIndexes : \A w \in Wares :
      /\ Le(MapGet(computed.stations[s].stationOutputs, w), MapGet(computed.stations[s].netOutputs, w))
      /\ Le(MapGet(computed.stations[s].stationInputs, w), MapGet(computed.stations[s].netInputs, w))

\* a module remainder of at most 0.01 is left out of the net lists, one per
\* module at most
Allowance(s) == FMul(Num(Len(plan.stations[s].modules)), Epsilon)

NotAbove(a, b) == Le(a, b) \/ Near(a, b)

\* C28 amended: the boundary amounts are at most the net amounts up to the
\* rounding of the sums and the remainders of at most 0.01 per module that
\* the net lists leave out.
C28_BoundaryNearlyWithinNet ==
  (Evaluated /\ StoredNonNegative) =>
    \A s \in StationIndexes : \A w \in Wares :
      /\ NotAbove(MapGet(computed.stations[s].stationOutputs, w),
                  FAdd(MapGet(computed.stations[s].netOutputs, w), Allowance(s)))
      /\ NotAbove(MapGet(computed.stations[s].stationInputs, w),
                  FAdd(MapGet(computed.stations[s].netInputs, w), Allowance(s)))

\* three Station Input connections take a refinery's whole need and two
\* custom ones ask for more than a miner has
C28_Witness ==
  /\ Evaluated /\ StoredNonNegative
  /\ \E s \in StationIndexes :
       /\ Len(StationInputsFor(s, "ore")) = 3
       /\ Gt(ModuleConnectionRecord(s, "k1").effectiveAmount, Zero)
       /\ Gt(ModuleConnectionRecord(s, "k2").effectiveAmount, Zero)
       /\ Gt(ModuleConnectionRecord(s, "k3").effectiveAmount, Zero)
       /\ Gt(MapGet(computed.stations[s].stationInputs, "ore"), Zero)
  /\ \E s \in StationIndexes :
       /\ MapGet(computed.stations[s].stationOutputs, "ore") = Num(60)
       /\ FindStation(plan.stations, plan.stations[s].id).moduleConnections[1].amount = Num(300)

(***************************************************************************)
(* Properties of the station aggregates against the module amounts         *)
(***************************************************************************)
\* the ware's amounts in the netInputs (netOutputs) of the modules, in
\* module order
ModuleNets(modules, wareId, outputs) ==
  [k \in 1..Len(modules) |->
     MapGet(IF outputs THEN modules[k].netOutputs ELSE modules[k].netInputs, wareId)]

\* C29: in the evaluated network each station's netInputs (netOutputs)
\* amount for a ware is the sum of the ware's amounts over the netInputs
\* (netOutputs) of its modules, also with external supply or consumption.
C29_AggregatesAreModuleSums ==
  Evaluated =>
    \A s \in StationIndexes : \A w \in Wares :
      /\ MapGet(computed.stations[s].netInputs, w)
           = Total(Zero, ModuleNets(computed.stations[s].modules, w, FALSE))
      /\ MapGet(computed.stations[s].netOutputs, w)
           = Total(Zero, ModuleNets(computed.stations[s].modules, w, TRUE))

\* the cascade changed no module amount of the ware at station s
Untouched(s, wareId) ==
  /\ ModuleNets(computed.stations[s].modules, wareId, FALSE)
       = ModuleNets(StationLevel(s).modules, wareId, FALSE)
  /\ ModuleNets(computed.stations[s].modules, wareId, TRUE)
       = ModuleNets(StationLevel(s).modules, wareId, TRUE)

\* C29 amended: the station's netInputs (netOutputs) amount is the sum over
\* the module amounts as the station evaluation left them; the cascade of
\* external supply and consumption lowers module amounts only, so the sum
\* over the returned modules equals the aggregate where the cascade changed
\* nothing and is below it where it did.
C29_AggregatesAreStationLevelSums ==
  Evaluated =>
    \A s \in StationIndexes : \A w \in Wares :
      /\ MapGet(computed.stations[s].netInputs, w)
           = Total(Zero, ModuleNets(StationLevel(s).modules, w, FALSE))
      /\ MapGet(computed.stations[s].netOutputs, w)
           = Total(Zero, ModuleNets(StationLevel(s).modules, w, TRUE))
      /\ StoredNonNegative =>
           /\ Le(Total(Zero, ModuleNets(computed.stations[s].modules, w, FALSE)),
                 MapGet(computed.stations[s].netInputs, w))
           /\ Le(Total(Zero, ModuleNets(computed.stations[s].modules, w, TRUE)),
                 MapGet(computed.stations[s].netOutputs, w))
           /\ Untouched(s, w) =>
                /\ MapGet(computed.stations[s].netInputs, w)
                     = Total(Zero, ModuleNets(computed.stations[s].modules, w, FALSE))
                /\ MapGet(computed.stations[s].netOutputs, w)
                     = Total(Zero, ModuleNets(computed.stations[s].modules, w, TRUE))

\* a station supplied from outside whose modules show less ore than its
\* aggregate
C29_Witness ==
  /\ Evaluated /\ StoredNonNegative
  /\ \E s \in StationIndexes :
       /\ Gt(Supplied(plan.stations[s].id, "ore"), Zero)
       /\ ~Untouched(s, "ore")
       /\ Lt(Total(Zero, ModuleNets(computed.stations[s].modules, "ore", FALSE)),
             MapGet(computed.stations[s].netInputs, "ore"))
       /\ MapGet(computed.stations[s].netInputs, "ore")
            = Total(Zero, ModuleNets(StationLevel(s).modules, "ore", FALSE))

(***************************************************************************)
(* The plan manager: store/planManagerStore.ts                             *)
(***************************************************************************)
\* the names the operations are exercised with
StoreNames == {"New Plan", "Copy"}

\* extractMeta(plan)
extractMeta(data) == [id |-> data.id, name |-> data.name]

\* localStorage.removeItem(planKey(id))
RemoveItem(plans, id) == [k \in DOMAIN plans \ {id} |-> plans[k]]

\* both stores and the storage; autoSave says whether setupAutoSave has run
AppState(autoSave) ==
  [planIndex |-> planIndex, currentPlanId |-> currentPlanId, localStorage |-> localStorage,
   planMeta |-> planMeta, plan |-> plan, computed |-> computed, nextId |-> nextId,
   autoSave |-> autoSave]

SetApp(st) ==
  /\ SetManager(st)
  /\ planMeta' = st.planMeta
  /\ plan' = st.plan
  /\ computed' = st.computed
  /\ nextId' = st.nextId
  /\ UNCHANGED gameData

\* what the subscription of setupAutoSave does after the plan store has set a
\* new plan object
Subscription(st) ==
  IF st.autoSave THEN saveCurrentPlanIn(st, st.planMeta, st.plan) ELSE st

\* usePlanStore.getState().loadPlan(plan)
loadPlanIn(st, data) ==
  Subscription([st EXCEPT
                  !.plan = migratedPlan(data.topology),
                  !.planMeta = extractMeta(data),
                  !.computed = Recomputed(migratedPlan(data.topology), gameData)])

\* usePlanStore.getState().renamePlan(name)
renamePlanIn(st, name) == Subscription([st EXCEPT !.planMeta.name = name])

createPlanIn(st, name) ==
  loadPlanIn([st EXCEPT
                !.localStorage =
                  [@ EXCEPT
                     !.plans = SetItem(@, Ids[st.nextId], StoredPlan([id |-> Ids[st.nextId], name |-> name], createEmptyPlan)),
                     !.index = Append(st.planIndex, [id |-> Ids[st.nextId], name |-> name]),
                     !.currentId = PlanRef(Ids[st.nextId])],
                !.planIndex = Append(@, [id |-> Ids[st.nextId], name |-> name]),
                !.currentPlanId = PlanRef(Ids[st.nextId]),
                !.nextId = @ + 1],
             StoredPlan([id |-> Ids[st.nextId], name |-> name], createEmptyPlan))

loadPlanByIdIn(st, id) ==
  IF id \notin DOMAIN st.localStorage.plans THEN st
  ELSE loadPlanIn([st EXCEPT !.localStorage.currentId = PlanRef(id),
                             !.currentPlanId = PlanRef(id)],
                  st.localStorage.plans[id])

\* planIndex.filter((m) => m.id !== id)
WithoutId(index, id) ==
  LET Keep(m) == m.id # id
  IN  SelectSeq(index, Keep)

\* deletePlan that leaves currentPlanId as it is
deletePlanInKeepingCurrent(st, id) ==
  [st EXCEPT !.localStorage = [@ EXCEPT !.plans = RemoveItem(@, id),
                                        !.index = WithoutId(st.planIndex, id)],
             !.planIndex = WithoutId(@, id)]

deletePlanIn(st, id) ==
  IF PlanRef(id) # st.currentPlanId
  THEN [st EXCEPT !.localStorage = [@ EXCEPT !.plans = RemoveItem(@, id),
                                             !.index = WithoutId(st.planIndex, id)],
                  !.planIndex = WithoutId(@, id)]
  ELSE IF Len(WithoutId(st.planIndex, id)) > 0
  THEN loadPlanByIdIn([st EXCEPT !.localStorage = [@ EXCEPT !.plans = RemoveItem(@, id),
                                                            !.index = WithoutId(st.planIndex, id)],
                                 !.planIndex = WithoutId(@, id)],
                      WithoutId(st.planIndex, id)[1].id)
  ELSE createPlanIn([st EXCEPT !.localStorage = [@ EXCEPT !.plans = RemoveItem(@, id),
                                                          !.index = <<>>,
                                                          !.currentId = Null],
                               !.planIndex = <<>>,
                               !.currentPlanId = Null],
                    "New Plan")

duplicatePlanIn(st, id, newName) ==
  IF id \notin DOMAIN st.localStorage.plans THEN st
  ELSE loadPlanIn([st EXCEPT
                     !.localStorage =
                       [@ EXCEPT
                          !.plans = SetItem(@, Ids[st.nextId], [@[id] EXCEPT !.id = Ids[st.nextId], !.name = newName]),
                          !.index = Append(st.planIndex, [id |-> Ids[st.nextId], name |-> newName]),
                          !.currentId = PlanRef(Ids[st.nextId])],
                     !.planIndex = Append(@, [id |-> Ids[st.nextId], name |-> newName]),
                     !.currentPlanId = PlanRef(Ids[st.nextId]),
                     !.nextId = @ + 1],
                  [st.localStorage.plans[id] EXCEPT !.id = Ids[st.nextId], !.name = newName])

\* updatePlanMeta(id, { name })
updatePlanMetaIn(st, id, name) ==
  IF id \notin DOMAIN st.localStorage.plans
  THEN [st EXCEPT !.planIndex = savedIndex(@, [id |-> id, name |-> name]),
                  !.localStorage.index = savedIndex(st.planIndex, [id |-> id, name |-> name])]
  ELSE IF PlanRef(id) # st.currentPlanId
  THEN [st EXCEPT !.planIndex = savedIndex(@, [id |-> id, name |-> name]),
                  !.localStorage = [@ EXCEPT !.index = savedIndex(st.planIndex, [id |-> id, name |-> name]),
                                             !.plans = SetItem(@, id, [@[id] EXCEPT !.name = name])]]
  ELSE renamePlanIn([st EXCEPT !.planIndex = savedIndex(@, [id |-> id, name |-> name]),
                               !.localStorage = [@ EXCEPT !.index = savedIndex(st.planIndex, [id |-> id, name |-> name]),
                                                          !.plans = SetItem(@, id, [@[id] EXCEPT !.name = name])]],
                    name)

\* initializePlanManager() where LEGACY_KEY is absent
initializePlanManagerIn(st) ==
  IF st.localStorage.currentId # Null
  THEN IF st.localStorage.currentId[1] \in DOMAIN st.localStorage.plans
       THEN loadPlanIn([st EXCEPT !.planIndex = st.localStorage.index,
                                  !.currentPlanId = st.localStorage.currentId],
                       st.localStorage.plans[st.localStorage.currentId[1]])
       ELSE [st EXCEPT !.planIndex = st.localStorage.index,
                       !.currentPlanId = st.localStorage.currentId]
  ELSE IF st.localStorage.index = <<>>
  THEN createPlanIn([st EXCEPT !.planIndex = <<>>, !.currentPlanId = Null], "New Plan")
  ELSE [st EXCEPT !.planIndex = st.localStorage.index, !.currentPlanId = Null]

\* the stores as constructed, over an empty storage, before App's effect
Constructed ==
  [planIndex |-> <<>>, currentPlanId |-> Null,
   localStorage |-> [index |-> <<>>, currentId |-> Null, plans |-> <<>>],
   planMeta |-> [id |-> "unsaved", name |-> "New Plan"], plan |-> createEmptyPlan,
   computed |-> createEmptyComputed, nextId |-> 1, autoSave |-> FALSE]

\* App start on an empty storage: initializePlanManager(), then setupAutoSave
InitManager ==
  /\ gameData = Null
  /\ \E st \in {initializePlanManagerIn(Constructed)} :
       /\ planIndex = st.planIndex
       /\ currentPlanId = st.currentPlanId
       /\ localStorage = st.localStorage
       /\ planMeta = st.planMeta
       /\ plan = st.plan
       /\ computed = st.computed
       /\ nextId = st.nextId

\* every id a plan can have
PlanIds == {Ids[i] : i \in 1..Len(Ids)}

\* the plan manager dialog, once the catalog is loaded, and an edit of the
\* open plan
NextManager ==
  \/ setGameData
  \/ /\ gameData # Null
     /\ \/ \E name \in StoreNames :
             CanCreate /\ SetApp(createPlanIn(AppState(TRUE), name))
        \/ \E id \in PlanIds : SetApp(loadPlanByIdIn(AppState(TRUE), id))
        \/ \E id \in PlanIds :
             /\ (PlanRef(id) = currentPlanId /\ WithoutId(planIndex, id) = <<>>) => CanCreate
             /\ SetApp(deletePlanIn(AppState(TRUE), id))
        \/ \E id \in PlanIds : \E name \in StoreNames :
             CanCreate /\ SetApp(duplicatePlanIn(AppState(TRUE), id, name))
        \/ \E id \in PlanIds : \E name \in StoreNames :
             SetApp(updatePlanMetaIn(AppState(TRUE), id, name))
        \/ \E id \in PlanIds : \E name \in StoreNames :
             SetApp(saveCurrentPlanIn(AppState(TRUE), [id |-> id, name |-> name], plan))
        \/ addStation

SpecManager == InitManager /\ [][NextManager]_vars

(***************************************************************************)
(* Properties of the plan manager                                          *)
(***************************************************************************)
IndexIds(index) == {index[i].id : i \in 1..Len(index)}

\* currentPlanId is the id of an index entry whose plan data is stored
CurrentIsIndexedAndStored ==
  /\ currentPlanId # Null
  /\ \E i \in 1..Len(planIndex) :
       /\ PlanRef(planIndex[i].id) = currentPlanId
       /\ planIndex[i].id \in DOMAIN localStorage.plans

\* a step that takes the current plan out of the index opens the first plan
\* that remains, or a new empty plan when none remains
DeleteSwitches ==
  \A id \in PlanIds :
    (PlanRef(id) = currentPlanId /\ id \in IndexIds(planIndex) /\ id \notin IndexIds(planIndex')) =>
      /\ id \notin DOMAIN localStorage'.plans
      /\ IF WithoutId(planIndex, id) # <<>>
         THEN /\ planIndex' = WithoutId(planIndex, id)
              /\ currentPlanId' = PlanRef(planIndex'[1].id)
              /\ planMeta'.id = planIndex'[1].id
              /\ UNCHANGED nextId
         ELSE /\ planIndex' = <<[id |-> Ids[nextId], name |-> "New Plan"]>>
              /\ currentPlanId' = PlanRef(Ids[nextId])
              /\ planMeta'.id = Ids[nextId]
              /\ plan' = createEmptyPlan
              /\ nextId' = nextId + 1

\* saveCurrentPlan with a plan of another id leaves index and storage alone
SaveWritesNothing ==
  \A id \in PlanIds : \A name \in StoreNames :
    (/\ PlanRef(id) # currentPlanId
     /\ SetApp(saveCurrentPlanIn(AppState(TRUE), [id |-> id, name |-> name], plan))) =>
      UNCHANGED <<planIndex, localStorage>>

\* C30: from empty storage, after initializePlanManager and any sequence of
\* createPlan, loadPlanById, deletePlan, duplicatePlan, updatePlanMeta and
\* saveCurrentPlan, currentPlanId is non-null and is the id of an index entry
\* whose plan data is stored; deleting the current plan switches to the first
\* remaining plan or creates a new one when none remains; saveCurrentPlan
\* writes nothing for a plan whose id differs from currentPlanId.
C30_PlanManager ==
  /\ []CurrentIsIndexedAndStored
  /\ [][DeleteSwitches /\ SaveWritesNothing]_vars

\* the first plan and its successor have been deleted: the plan created in
\* place of the last one is open, alone in the index and in the storage
C30_Witness ==
  /\ planIndex = <<[id |-> "n3", name |-> "New Plan"]>>
  /\ currentPlanId = PlanRef("n3")
  /\ DOMAIN localStorage.plans = {"n3"}
  /\ planMeta.id = "n3"

====
